---- MODULE Spec2Model ----
(***************************************************************************)
(* Map of Anime: similarity graph construction, genre community detection *)
(* label propagation, the recommendation graph and the hierarchical       *)
(* layout, modelled from the compute-similarity scripts and                *)
(* scripts/generate-layout-hierarchical.js.                                *)
(*                                                                         *)
(* Numbers.  JavaScript doubles are modelled exactly: a similarity is a    *)
(* reduced fraction <<n, d>> (d > 0), the factor weights 3.0, 2.5, 1.5,    *)
(* 1.0, 0.5, 0.3, 2.0 are counted in tenths, and layout coordinates are    *)
(* integers in hundredths of a layout unit.                                *)
(***************************************************************************)
EXTENDS Integers, Sequences, FiniteSets, TLC

VARIABLES
    \* --- pair scoring (computeAnimeSimilarity applied to one pair) ---
    animeA, animeB,      \* the two items handed to computeAnimeSimilarity
    scoreAB, scoreBA,    \* computeAnimeSimilarity(A,B) and (B,A); NoScore before
    pairEdges,           \* computeSimilarities([A,B])
    \* --- metadata main(): load -> score -> build -> detect -> save ---
    animeList,           \* anime_metadata.json
    pcM,                 \* position of main() in compute-similarity-metadata.js
    edges,               \* result of computeSimilarities
    graph,               \* result of buildGraph, mutated by detectCommunities
    communities,         \* result of detectCommunities (labels)
    graphFile,           \* data/processed/graph.json as written by main()
    \* --- layout main(): generate-layout-hierarchical.js ---
    layoutGraph,         \* graph.json as read by the layout script
    pcL,                 \* position of main() / runSimulation()
    currentTier,         \* HierarchicalLayout.currentTier
    layoutNodes,         \* `nodes` of runSimulation: the LayoutNodes of the tier
    layoutEdges,         \* `edges` of runSimulation: result of createEdges
    positioned,          \* graph.nodes after finalizeLayout (x, y, hue)
    layoutFile,          \* data/processed/layout.compact.json
    prevLayoutFile,      \* layout.compact.json as the previous run left it
    runCount,            \* how often the layout script has been started
    sims,                \* the force simulations runTier has created, in order
    \* --- label propagation: detectCommunities of the user-similarity script ---
    lpGraph,             \* the graph handed to detectCommunities
    pcLP,                \* position inside detectCommunities
    lpCommunities,       \* the Map `communities`: node id -> label
    lpChanged,           \* `changed`
    lpIterations,        \* `iterations`
    lpCursor,            \* index of the node the for loop visits next
    lpStart,             \* `communities` as it was when the iteration began
    \* --- recommendation mode: buildRecommendationGraph ---
    recList,             \* animeList with each item's recommendation edges
    pcR,                 \* position of buildRecommendationGraph
    recGraph,            \* the graphology graph: nodes and undirected edges
    recLog,              \* what buildRecommendationGraph writes to the console
    \* --- runTier's tick handler with normalizeDensity ---
    dnNodes,             \* the nodes of the simulation: position and scaling
    dnTick,              \* `tickCount`
    dnIterations,        \* `iterations`
    dnCalls,             \* how often normalizeDensity has been called
    dnLive,              \* the simulation has not been stopped
    \* --- the map page: App.vue and AnimeMapRenderer ---
    selectedAnime,       \* App.selectedAnime (the detail panel shows it)
    selectedNode,        \* renderer.selectedNode
    hoveredNode,         \* renderer.hoveredNode
    searchResults,       \* App.searchResults
    uiEvent,             \* the last thing the user did
    \* --- makeRequest of the collection scripts ---
    reqVersion,          \* which of the three makeRequest functions runs
    reqI,                \* the loop variable `i`
    reqLog,              \* the responses received so far, one per HTTP attempt
    reqOutcome,          \* how the call ended, if it has
    \* --- main() of the user-similarity script ---
    userEdges,           \* result of computeSimilarities(animeUsers)
    userCount,           \* number of items in animeUsers
    pcU,                 \* position of main()
    userFile             \* data/processed/graph.json as written by main()

scoreVars  == <<animeA, animeB, scoreAB, scoreBA, pairEdges>>
metaVars   == <<animeList, pcM, edges, graph, communities, graphFile>>
layoutVars == <<layoutGraph, pcL, currentTier, layoutNodes, layoutEdges,
                positioned, layoutFile, prevLayoutFile, runCount>>
tickVars   == <<sims>>
labelVars  == <<lpGraph, pcLP, lpCommunities, lpChanged, lpIterations, lpCursor,
                lpStart>>
recVars    == <<recList, pcR, recGraph, recLog>>
densityVars == <<dnNodes, dnTick, dnIterations, dnCalls, dnLive>>
uiVars     == <<selectedAnime, selectedNode, hoveredNode, searchResults, uiEvent>>
reqVars    == <<reqVersion, reqI, reqLog, reqOutcome>>
userVars   == <<userEdges, userCount, pcU, userFile>>
moreVars   == <<densityVars, uiVars, reqVars, userVars>>
extraVars  == <<tickVars, labelVars, recVars, moreVars>>
vars       == <<scoreVars, metaVars, layoutVars, extraVars>>

-----------------------------------------------------------------------------
(* Exact arithmetic on fractions.                                          *)

RECURSIVE GCD(_, _)
GCD(a, b) == IF b = 0 THEN a ELSE GCD(b, a % b)

Reduce(f) ==
    IF f[1] = 0 THEN <<0, 1>>
    ELSE LET g == GCD(f[1], f[2]) IN <<f[1] \div g, f[2] \div g>>

FracAdd(f, g)   == Reduce(<<f[1] * g[2] + g[1] * f[2], f[2] * g[2]>>)
FracScale(f, k) == Reduce(<<f[1] * k, f[2]>>)
FracDiv(f, k)   == Reduce(<<f[1], f[2] * k>>)
FracGE(f, g)    == f[1] * g[2] >= g[1] * f[2]
FracGT(f, g)    == f[1] * g[2] > g[1] * f[2]
Zero == <<0, 1>>
One  == <<1, 1>>

Range(s) == {s[k] : k \in 1..Len(s)}
Max(a, b) == IF a >= b THEN a ELSE b
Min(a, b) == IF a <= b THEN a ELSE b
Abs(a) == IF a < 0 THEN -a ELSE a

-----------------------------------------------------------------------------
(* Items.  An item is the part of an AniList media record that the         *)
(* similarity script reads.  Lists are JavaScript arrays (order and        *)
(* repetition kept); studios, staff and relations hold the ids that        *)
(* `?.nodes?.map(s => s.id) || []` extracts.  format "" and seasonYear 0   *)
(* stand for an absent (null) value: both are falsy in the guards.         *)

NoFormat == ""
NoYear   == 0

Tag(name, rank, spoiler) == [name |-> name, rank |-> rank, isMediaSpoiler |-> spoiler]

Item(id, genres, tags, studios, staff, format, seasonYear, relations) ==
    [id |-> id, genres |-> genres, tags |-> tags, studios |-> studios,
     staff |-> staff, format |-> format, seasonYear |-> seasonYear,
     relations |-> relations]

-----------------------------------------------------------------------------
(* compute-similarity-metadata.js: the factor functions.                   *)

\* setA.filter(item => setB.includes(item)).length / new Set([...setA, ...setB]).size
jaccardSimilarity(setA, setB) ==
    IF Len(setA) = 0 /\ Len(setB) = 0 THEN Zero
    ELSE LET intersection == SelectSeq(setA, LAMBDA item : item \in Range(setB))
             union        == Range(setA) \cup Range(setB)
         IN  Reduce(<<Len(intersection), Cardinality(union)>>)

\* new Map(tags.map(t => [t.name, t.rank])).get(name) || 0 : the last entry of a
\* name wins, a missing name reads as 0.
RECURSIVE TagRank(_, _)
TagRank(tags, name) ==
    IF Len(tags) = 0 THEN 0
    ELSE IF tags[Len(tags)].name = name THEN tags[Len(tags)].rank
    ELSE TagRank(SubSeq(tags, 1, Len(tags) - 1), name)

\* totalWeight += Math.max(rankA, rankB), over the tags in `names`
RECURSIVE TotalWeight(_, _, _)
TotalWeight(names, tagsA, tagsB) ==
    IF names = {} THEN 0
    ELSE LET tag == CHOOSE n \in names : TRUE
         IN  Max(TagRank(tagsA, tag), TagRank(tagsB, tag))
                + TotalWeight(names \ {tag}, tagsA, tagsB)

\* if (rankA > 0 && rankB > 0) matchWeight += Math.min(rankA, rankB)
RECURSIVE MatchWeight(_, _, _)
MatchWeight(names, tagsA, tagsB) ==
    IF names = {} THEN 0
    ELSE LET tag == CHOOSE n \in names : TRUE
         IN  (IF TagRank(tagsA, tag) > 0 /\ TagRank(tagsB, tag) > 0
              THEN Min(TagRank(tagsA, tag), TagRank(tagsB, tag)) ELSE 0)
                + MatchWeight(names \ {tag}, tagsA, tagsB)

tagSimilarity(tagsA, tagsB) ==
    LET allTags == {t.name : t \in Range(tagsA)} \cup {t.name : t \in Range(tagsB)}
        totalWeight == TotalWeight(allTags, tagsA, tagsB)
        matchWeight == MatchWeight(allTags, tagsA, tagsB)
    IN  IF totalWeight > 0 THEN Reduce(<<matchWeight, totalWeight>>) ELSE Zero

\* Factor weights, in tenths.
GenreWeight    == 30
TagWeight      == 25
StudioWeight   == 15
StaffWeight    == 10
FormatWeight   == 5
SeasonWeight   == 3
RelationWeight == 20
SeasonWindow   == 2

\* One factor's contribution: what it adds to `similarity` and to `weights`.
NoFactor == [similarity |-> Zero, weights |-> 0]
Factor(sim, weight) == [similarity |-> FracScale(sim, weight), weights |-> weight]

GenreFactor(a, b) ==
    IF Len(a.genres) > 0 /\ Len(b.genres) > 0
    THEN Factor(jaccardSimilarity(a.genres, b.genres), GenreWeight)
    ELSE NoFactor

NonSpoiler(tags) == SelectSeq(tags, LAMBDA t : ~t.isMediaSpoiler)

TagFactor(a, b) ==
    IF Len(a.tags) > 0 /\ Len(b.tags) > 0
          /\ Len(NonSpoiler(a.tags)) > 0 /\ Len(NonSpoiler(b.tags)) > 0
    THEN Factor(tagSimilarity(NonSpoiler(a.tags), NonSpoiler(b.tags)), TagWeight)
    ELSE NoFactor

StudioFactor(a, b) ==
    IF Len(a.studios) > 0 /\ Len(b.studios) > 0
    THEN Factor(jaccardSimilarity(a.studios, b.studios), StudioWeight)
    ELSE NoFactor

StaffFactor(a, b) ==
    IF Len(a.staff) > 0 /\ Len(b.staff) > 0
    THEN Factor(jaccardSimilarity(a.staff, b.staff), StaffWeight)
    ELSE NoFactor

\* Variant: a format present on both sides counts as a match.
FormatFactorAnyFormat(a, b) ==
    IF a.format # NoFormat /\ b.format # NoFormat
    THEN Factor(One, FormatWeight)
    ELSE NoFactor

FormatFactor(a, b) ==
    IF a.format # NoFormat /\ b.format # NoFormat /\ a.format = b.format
    THEN Factor(One, FormatWeight)
    ELSE NoFactor

SeasonFactor(a, b) ==
    IF a.seasonYear # NoYear /\ b.seasonYear # NoYear
          /\ Abs(a.seasonYear - b.seasonYear) <= SeasonWindow
    THEN Factor(<<3 - Abs(a.seasonYear - b.seasonYear), 3>>, SeasonWeight)
    ELSE NoFactor

\* Only animeA's relation list is consulted.
RelationFactor(a, b) ==
    IF b.id \in Range(a.relations)
    THEN Factor(One, RelationWeight)
    ELSE NoFactor

Factors(a, b) ==
    <<GenreFactor(a, b), TagFactor(a, b), StudioFactor(a, b), StaffFactor(a, b),
      FormatFactor(a, b), SeasonFactor(a, b), RelationFactor(a, b)>>

RECURSIVE SumSimilarity(_)
SumSimilarity(fs) ==
    IF Len(fs) = 0 THEN Zero
    ELSE FracAdd(SumSimilarity(SubSeq(fs, 1, Len(fs) - 1)), fs[Len(fs)].similarity)

RECURSIVE SumWeights(_)
SumWeights(fs) ==
    IF Len(fs) = 0 THEN 0
    ELSE SumWeights(SubSeq(fs, 1, Len(fs) - 1)) + fs[Len(fs)].weights

\* return weights > 0 ? similarity / weights : 0
computeAnimeSimilarity(a, b) ==
    LET similarity == SumSimilarity(Factors(a, b))
        weights    == SumWeights(Factors(a, b))
    IN  IF weights > 0 THEN FracDiv(similarity, weights) ELSE Zero

\* MIN_SIMILARITY = 0.25
MIN_SIMILARITY == <<1, 4>>

\* Variant: the comparison reversed.
PassesThresholdReversed(similarity, minSimilarity) == FracGE(minSimilarity, similarity)

\* if (similarity >= MIN_SIMILARITY) similarities.push(...)
PassesThreshold(similarity, minSimilarity) == FracGE(similarity, minSimilarity)

Edge(a, b, w) == [source |-> a.id, target |-> b.id, weight |-> w]

\* The double loop i < j of computeSimilarities, with the threshold as a parameter.
RECURSIVE PairLoop(_, _, _, _)
PairLoop(list, i, j, minSimilarity) ==
    IF i > Len(list) THEN <<>>
    ELSE IF j > Len(list) THEN PairLoop(list, i + 1, i + 2, minSimilarity)
    ELSE LET similarity == computeAnimeSimilarity(list[i], list[j])
             rest       == PairLoop(list, i, j + 1, minSimilarity)
         IN  IF PassesThreshold(similarity, minSimilarity)
             THEN <<Edge(list[i], list[j], similarity)>> \o rest
             ELSE rest

computeSimilaritiesAt(list, minSimilarity) == PairLoop(list, 1, 2, minSimilarity)

computeSimilarities(list) == computeSimilaritiesAt(list, MIN_SIMILARITY)

-----------------------------------------------------------------------------
(* Bounded inputs.                                                         *)

MaxDup   == 2      \* how often one staff member may recur in a staff list
MaxItems == 4      \* longest anime_metadata.json

\* AniList returns genres, tags and main studios without repetition, but one
\* staff edge per (person, role): with staff(sort: RELEVANCE, perPage: 5) the
\* same person id can recur in staff.edges.
GenreLists  == {<<>>, <<"Action", "Drama">>, <<"Action">>, <<"Romance">>}
TagLists    == {<<>>,
                <<Tag("Gore", 80, FALSE)>>,
                <<Tag("Gore", 40, FALSE), Tag("Twist", 60, TRUE)>>,
                <<Tag("Twist", 60, TRUE)>>,
                <<Tag("Idol", 70, FALSE)>>}
StudioLists == {<<>>, <<1>>, <<2>>}
StaffLists  == {<<>>, <<8>>} \cup {[k \in 1..n |-> 7] : n \in 1..MaxDup}
Formats     == {NoFormat, "TV", "MOVIE"}
Years       == {NoYear, 2020, 2021, 2022, 2025}

\* Items that vary in their list attributes, and items that vary in genre, format,
\* season-year and relations.
ListItems(id) ==
    {Item(id, g, t, s, f, NoFormat, NoYear, <<>>) :
        g \in GenreLists, t \in TagLists, s \in StudioLists, f \in StaffLists}
ScalarItems(id, other) ==
    {Item(id, g, <<>>, <<>>, <<>>, fmt, y, r) :
        g \in GenreLists, fmt \in Formats, y \in Years, r \in {<<>>, <<other>>}}
PairItems(id, other) == ListItems(id) \cup ScalarItems(id, other)

NoScore == <<>>

MetaIdle ==
    /\ animeList = <<>>
    /\ pcM = "off"
    /\ edges = <<>>
    /\ graph = [nodes |-> <<>>, edges |-> <<>>]
    /\ communities = <<>>
    /\ graphFile = <<>>

LayoutIdle ==
    /\ layoutGraph = [nodes |-> <<>>, edges |-> <<>>]
    /\ pcL = "off"
    /\ currentTier = 0
    /\ layoutNodes = <<>>
    /\ layoutEdges = <<>>
    /\ positioned = <<>>
    /\ layoutFile = <<>>
    /\ prevLayoutFile = <<>>
    /\ runCount = 0

TickIdle == sims = <<>>

LabelIdle ==
    /\ lpGraph = [nodes |-> <<>>, edges |-> <<>>]
    /\ pcLP = "off"
    /\ lpCommunities = <<>>
    /\ lpChanged = FALSE
    /\ lpIterations = 0
    /\ lpCursor = 0
    /\ lpStart = <<>>

RecIdle ==
    /\ recList = <<>>
    /\ pcR = "off"
    /\ recGraph = [nodes |-> <<>>, edges |-> <<>>]
    /\ recLog = <<>>

NoNode == 0

DensityIdle ==
    /\ dnNodes = <<>>
    /\ dnTick = 0
    /\ dnIterations = 0
    /\ dnCalls = 0
    /\ dnLive = FALSE

UiIdle ==
    /\ selectedAnime = NoNode
    /\ selectedNode = NoNode
    /\ hoveredNode = NoNode
    /\ searchResults = <<>>
    /\ uiEvent = <<>>

ReqIdle ==
    /\ reqVersion = 0
    /\ reqI = 0
    /\ reqLog = <<>>
    /\ reqOutcome = "off"

UserIdle ==
    /\ userEdges = <<>>
    /\ userCount = 0
    /\ pcU = "off"
    /\ userFile = <<>>

MoreIdle == DensityIdle /\ UiIdle /\ ReqIdle /\ UserIdle

ExtraIdle == TickIdle /\ LabelIdle /\ RecIdle /\ MoreIdle

ScoreIdle ==
    /\ animeA = <<>>
    /\ animeB = <<>>
    /\ scoreAB = NoScore
    /\ scoreBA = NoScore
    /\ pairEdges = <<>>

-----------------------------------------------------------------------------
(* SpecScore: computeAnimeSimilarity and computeSimilarities on one pair.  *)

InitScore ==
    /\ animeA \in PairItems(1, 2)
    /\ animeB \in PairItems(2, 1)
    /\ scoreAB = NoScore
    /\ scoreBA = NoScore
    /\ pairEdges = <<>>
    /\ MetaIdle
    /\ LayoutIdle
    /\ ExtraIdle

ScorePair ==
    /\ scoreAB = NoScore
    /\ scoreAB' = computeAnimeSimilarity(animeA, animeB)
    /\ scoreBA' = computeAnimeSimilarity(animeB, animeA)
    /\ pairEdges' = computeSimilarities(<<animeA, animeB>>)
    /\ UNCHANGED <<animeA, animeB, metaVars, layoutVars, extraVars>>

NextScore == ScorePair

SpecScore == InitScore /\ [][NextScore]_vars

-----------------------------------------------------------------------------
(* compute-similarity-metadata.js: buildGraph and detectCommunities.       *)

NoCommunity == -1      \* node.community before detectCommunities (undefined)

Node(anime) == [id |-> anime.id, genres |-> anime.genres, community |-> NoCommunity]

\* nodes.filter(node => nodeIds.has(node.id)), nodeIds = the edges' endpoints
buildGraph(list, es) ==
    LET nodes   == [k \in 1..Len(list) |-> Node(list[k])]
        nodeIds == {e.source : e \in Range(es)} \cup {e.target : e \in Range(es)}
    IN  [nodes |-> SelectSeq(nodes, LAMBDA node : node.id \in nodeIds),
         edges |-> es]

primaryGenres ==
    <<"Action", "Adventure", "Comedy", "Drama", "Fantasy",
      "Horror", "Mystery", "Psychological", "Romance", "Sci-Fi",
      "Slice of Life", "Sports", "Supernatural", "Thriller", "Mecha">>

\* genreToCommunity.get(genre): the genre's index in primaryGenres, from 0
genreToCommunity(genre) ==
    (CHOOSE k \in 1..Len(primaryGenres) : primaryGenres[k] = genre) - 1

defaultCommunity == Len(primaryGenres)

\* for (const genre of node.genres) if (genreToCommunity.has(genre)) ... break
RECURSIVE FirstPrimary(_, _)
FirstPrimary(genres, k) ==
    IF k > Len(genres) THEN defaultCommunity
    ELSE IF genres[k] \in Range(primaryGenres) THEN genreToCommunity(genres[k])
    ELSE FirstPrimary(genres, k + 1)

\* Variant: the earliest genre of primaryGenres that the item possesses.
AssignCommunityByPriority(genres) ==
    IF \E k \in 1..Len(primaryGenres) : primaryGenres[k] \in Range(genres)
    THEN (CHOOSE k \in 1..Len(primaryGenres) :
             /\ primaryGenres[k] \in Range(genres)
             /\ \A m \in 1..(k - 1) : primaryGenres[m] \notin Range(genres)) - 1
    ELSE defaultCommunity

AssignCommunity(genres) ==
    IF Len(genres) > 0 THEN FirstPrimary(genres, 1) ELSE defaultCommunity

\* Variant: a node without a primary genre is left without a community.
DetectedNodesNoDefault(nodes) ==
    [k \in 1..Len(nodes) |->
        IF AssignCommunity(nodes[k].genres) = defaultCommunity THEN nodes[k]
        ELSE [nodes[k] EXCEPT !.community = AssignCommunity(nodes[k].genres)]]

\* graph.nodes.forEach(node => node.community = ...)
DetectedNodes(nodes) ==
    [k \in 1..Len(nodes) |->
        [nodes[k] EXCEPT !.community = AssignCommunity(nodes[k].genres)]]

\* communityLabels: one entry per community id 0..15 with its size
CommunityLabels(nodes) ==
    [c \in 1..(defaultCommunity + 1) |->
        [id   |-> c - 1,
         size |-> Cardinality({k \in 1..Len(nodes) : nodes[k].community = c - 1})]]

-----------------------------------------------------------------------------
(* SpecMeta: main() of compute-similarity-metadata.js.                     *)

\* (genres, format) of the items a metadata file may hold
MetaShapes ==
    {<<<<>>, "TV">>,
     <<<<"Action">>, "TV">>,
     <<<<"Drama", "Action">>, NoFormat>>,
     <<<<"Action", "Drama">>, NoFormat>>,
     <<<<"Mecha", "Sci-Fi">>, NoFormat>>,
     <<<<"Music">>, "MOVIE">>,
     <<<<"Music", "Romance">>, NoFormat>>}

MetaItem(id, shape) == Item(id, shape[1], <<>>, <<>>, <<>>, shape[2], NoYear, <<>>)

\* item k of the file has id k
MetaLists ==
    UNION {{[k \in 1..n |-> MetaItem(k, f[k])] : f \in [1..n -> MetaShapes]} :
              n \in 0..MaxItems}

InitMeta ==
    /\ animeList \in MetaLists
    /\ pcM = "loaded"
    /\ edges = <<>>
    /\ graph = [nodes |-> <<>>, edges |-> <<>>]
    /\ communities = <<>>
    /\ graphFile = <<>>
    /\ ScoreIdle
    /\ LayoutIdle
    /\ ExtraIdle

\* const edges = await computeSimilarities(animeList)
ComputeSimilarities ==
    /\ pcM = "loaded"
    /\ edges' = computeSimilarities(animeList)
    /\ pcM' = "scored"
    /\ UNCHANGED <<animeList, graph, communities, graphFile, scoreVars, layoutVars, extraVars>>

\* const graph = buildGraph(animeList, edges)
BuildGraph ==
    /\ pcM = "scored"
    /\ graph' = buildGraph(animeList, edges)
    /\ pcM' = "built"
    /\ UNCHANGED <<animeList, edges, communities, graphFile, scoreVars, layoutVars, extraVars>>

\* const communities = detectCommunities(graph)
DetectCommunities ==
    /\ pcM = "built"
    /\ graph' = [graph EXCEPT !.nodes = DetectedNodes(graph.nodes)]
    /\ communities' = CommunityLabels(DetectedNodes(graph.nodes))
    /\ pcM' = "detected"
    /\ UNCHANGED <<animeList, edges, graphFile, scoreVars, layoutVars, extraVars>>

\* await fs.writeFile(graph.json, JSON.stringify(graph))
SaveGraph ==
    /\ pcM = "detected"
    /\ graphFile' = <<graph>>
    /\ pcM' = "saved"
    /\ UNCHANGED <<animeList, edges, graph, communities, scoreVars, layoutVars, extraVars>>

NextMeta == ComputeSimilarities \/ BuildGraph \/ DetectCommunities \/ SaveGraph

SpecMeta == InitMeta /\ [][NextMeta]_vars

-----------------------------------------------------------------------------
(* generate-layout-hierarchical.js: HierarchicalLayout.                    *)
(*                                                                         *)
(* Coordinates are integers in hundredths of a layout unit.  The d3-force  *)
(* simulation of runTier is a library outside the repository: the model    *)
(* lets it leave every LayoutNode at any point of PosSet.  Each            *)
(* Math.random() / _.shuffle call is a free choice from a small set.       *)

Unit         == 100
maxTier      == 3
SubgroupSize == 50       \* Math.ceil(members.length / 50)
worldScale   == 20000    \* const scale = 20000
FallbackSpan == 100      \* (Math.random() - 0.5) * 100
FullTurn     == 360

LayoutNode(id, clusterId, tier) ==
    [id |-> id, clusterId |-> clusterId, tier |-> tier, x |-> 0, y |-> 0, hue |-> Zero]

\* this.nodesByCommunity[comm]: the graph nodes of a community, in graph order
Members(g, comm) == SelectSeq(g.nodes, LAMBDA n : n.community = comm)

RECURSIVE Ascending(_)
Ascending(S) ==
    IF S = {} THEN <<>>
    ELSE LET m == CHOOSE x \in S : \A y \in S : x <= y
         IN  <<m>> \o Ascending(S \ {m})

\* Object.keys(this.nodesByCommunity): integer keys come out in ascending order,
\* the key "undefined" of nodes without a community after them
CommunityKeys(g) ==
    LET comms == {g.nodes[k].community : k \in 1..Len(g.nodes)}
    IN  Ascending(comms \ {NoCommunity})
            \o (IF NoCommunity \in comms THEN <<NoCommunity>> ELSE <<>>)

\* parseInt(comm): NaN for the key "undefined".  No graph node has NaNCluster as
\* its community, so nodesByCommunity[NaN] has no members and no comparison of a
\* node's community with it succeeds.
NaNCluster == -2
ParseKey(key) == IF key = NoCommunity THEN NaNCluster ELSE key

\* _.sortBy(nodes, size): the positions of `nodes`, stably ordered by ascending size
RECURSIVE SortByOrder(_, _)
SortByOrder(idxs, size) ==
    IF idxs = {} THEN <<>>
    ELSE LET m == CHOOSE i \in idxs :
                      \A j \in idxs : size[i] < size[j] \/ (size[i] = size[j] /\ i <= j)
         IN  <<m>> \o SortByOrder(idxs \ {m}, size)

Reverse(s) == [k \in 1..Len(s) |-> s[Len(s) + 1 - k]]

NoSwap(s, i, j) == s
Swap(s, i, j) == [s EXCEPT ![i] = s[j], ![j] = s[i]]

Shuffles(n) == {f \in [1..n -> 1..n] : \A i, j \in 1..n : f[i] = f[j] => i = j}

\* The order in which assignHues hands out the hues: positions of `nodes`, the two
\* largest communities first, the rest as _.shuffle left them (`perm`), then the
\* second swapped with the middle.
HueOrder(g, nodes, perm) ==
    LET size     == [k \in 1..Len(nodes) |-> Len(Members(g, nodes[k].clusterId))]
        sorted   == Reverse(SortByOrder(1..Len(nodes), size))
        tail     == SubSeq(sorted, 3, Len(sorted))
        shuffled == SubSeq(sorted, 1, Min(2, Len(sorted)))
                       \o [k \in 1..Len(tail) |-> tail[perm[k]]]
        mid      == Len(shuffled) \div 2
    IN  IF Len(shuffled) > 2 THEN Swap(shuffled, 2, mid + 1) ELSE shuffled

\* node.hue = (360 * i / shuffled.length) % 360, i counted from 0
assignHues(g, nodes, perm) ==
    LET order == HueOrder(g, nodes, perm)
        place(k) == CHOOSE i \in 1..Len(order) : order[i] = k
    IN  [k \in 1..Len(nodes) |->
            [nodes[k] EXCEPT !.hue = Reduce(<<FullTurn * (place(k) - 1), Len(order)>>)]]

createInitialNodes(g, perm) ==
    LET keys == CommunityKeys(g)
    IN  assignHues(g, [k \in 1..Len(keys) |->
                          LayoutNode(ParseKey(keys[k]), ParseKey(keys[k]), 0)], perm)

RECURSIVE Pow2(_)
Pow2(n) == IF n = 0 THEN 1 ELSE 2 * Pow2(n - 1)

CeilDiv(a, b) == (a + b - 1) \div b

\* Math.min(nodesPerCommunity, Math.ceil(members.length / 50)), with
\* nodesPerCommunity = Math.pow(2, this.currentTier + 1)
Subgroups(g, parentNode, tier) ==
    Min(Pow2(tier + 1), CeilDiv(Len(Members(g, parentNode.clusterId)), SubgroupSize))

RECURSIVE ChildCount(_, _, _)
ChildCount(g, oldNodes, tier) ==
    IF Len(oldNodes) = 0 THEN 0
    ELSE Subgroups(g, oldNodes[1], tier) + ChildCount(g, Tail(oldNodes), tier)

\* The children of one parent; jitter[offset + i + 1] is the pair of offsets that
\* (Math.random() - 0.5) * 50 gave child i.
Children(g, parentNode, tier, jitter, offset) ==
    [c \in 1..Subgroups(g, parentNode, tier) |->
        [id       |-> parentNode.clusterId * 1000 + (c - 1),
         clusterId |-> parentNode.clusterId,
         tier     |-> tier,
         x        |-> parentNode.x + jitter[offset + c][1],
         y        |-> parentNode.y + jitter[offset + c][2],
         hue      |-> parentNode.hue]]

RECURSIVE SubdivideFrom(_, _, _, _, _)
SubdivideFrom(g, oldNodes, tier, jitter, offset) ==
    IF Len(oldNodes) = 0 THEN <<>>
    ELSE Children(g, oldNodes[1], tier, jitter, offset)
            \o SubdivideFrom(g, Tail(oldNodes), tier, jitter,
                             offset + Subgroups(g, oldNodes[1], tier))

\* subdivideNodes(oldNodes) with this.currentTier = tier
subdivideNodes(g, oldNodes, tier, jitter) == SubdivideFrom(g, oldNodes, tier, jitter, 0)

\* this.graph.nodes.find(n => n.id === id || String(n.id) === String(id))
FindNode(g, id) ==
    IF \E k \in 1..Len(g.nodes) : g.nodes[k].id = id
    THEN <<g.nodes[CHOOSE k \in 1..Len(g.nodes) :
                      g.nodes[k].id = id /\ \A m \in 1..(k - 1) : g.nodes[m].id # id]>>
    ELSE <<>>

\* nodes.filter(n => n.clusterId === community)[0], as a position of `nodes`
FirstOfCluster(nodes, community) ==
    IF \E k \in 1..Len(nodes) : nodes[k].clusterId = community
    THEN <<CHOOSE k \in 1..Len(nodes) :
              nodes[k].clusterId = community
                 /\ \A m \in 1..(k - 1) : nodes[m].clusterId # community>>
    ELSE <<>>

\* edge.weight || 0.5
WeightHalf(w) == <<1, 2>>
WeightOr(w) == IF w = Zero THEN <<1, 2>> ELSE w

\* createEdges: what one graph edge pushes (nothing, or one layout edge)
LayoutEdgeOf(g, nodes, edge) ==
    LET sourceNode == FindNode(g, edge.source)
        targetNode == FindNode(g, edge.target)
    IN  IF sourceNode = <<>> \/ targetNode = <<>> THEN <<>>
        ELSE IF sourceNode[1].community = targetNode[1].community THEN <<>>
        ELSE LET sourceLayout == FirstOfCluster(nodes, sourceNode[1].community)
                 targetLayout == FirstOfCluster(nodes, targetNode[1].community)
             IN  IF sourceLayout = <<>> \/ targetLayout = <<>> THEN <<>>
                 ELSE <<[source |-> sourceLayout[1], target |-> targetLayout[1],
                         weight |-> WeightOr(edge.weight)]>>

RECURSIVE CreateEdgesFrom(_, _, _)
CreateEdgesFrom(g, nodes, es) ==
    IF Len(es) = 0 THEN <<>>
    ELSE LayoutEdgeOf(g, nodes, es[1]) \o CreateEdgesFrom(g, nodes, Tail(es))

createEdges(g, nodes) == CreateEdgesFrom(g, nodes, g.edges)

\* Indices of the graph nodes of a community, in graph order
MemberIdx(g, comm) ==
    SelectSeq([k \in 1..Len(g.nodes) |-> k], LAMBDA k : g.nodes[k].community = comm)

\* Positions of the LayoutNodes of a community, in `layoutNodes` order
ClusterIdx(nodes, comm) ==
    SelectSeq([k \in 1..Len(nodes) |-> k], LAMBDA k : nodes[k].clusterId = comm)

IndexOf(s, v) == CHOOSE k \in 1..Len(s) : s[k] = v

\* members.slice(startIdx, startIdx + nodesPerLayoutNode) for the LayoutNode at
\* position p, as graph indices
AssignedMembers(g, nodes, p) ==
    LET members          == MemberIdx(g, nodes[p].clusterId)
        inCommunity      == ClusterIdx(nodes, nodes[p].clusterId)
        nodesPerLayout   == CeilDiv(Len(members), Len(inCommunity))
        layoutNodeIndex  == IndexOf(inCommunity, p) - 1
        startIdx         == layoutNodeIndex * nodesPerLayout
    IN  SubSeq(members, startIdx + 1, Min(startIdx + nodesPerLayout, Len(members)))

\* Math.cos / Math.sin of 2*pi*i/n in hundredths: exact to the hundredth for slices
\* of up to 3 members, approximated for larger ones.
\* Math.sin(Math.PI) is 1.2e-16, not 0: SinTiny marks it.
\* Math.round(100 * p / q) for p >= 0, q > 0
Hundredths(p, q) == (200 * p + q) \div (2 * q)

\* sin(2 * pi * a / b) in hundredths for 0 <= 2a <= b, by Bhaskara's rational
\* approximation 4x(180 - x) / (40500 - x(180 - x)), x in degrees (error < 0.002)
HalfSin(a, b) == Hundredths(32 * a * (b - 2 * a), 5 * b * b - 8 * a * (b - 2 * a))

SinTurn(a, b) == IF 2 * a <= b THEN HalfSin(a, b) ELSE -HalfSin(2 * a - b, 2 * b)

CosTurn(a, b) ==
    IF 4 * a + b < 4 * b THEN SinTurn(4 * a + b, 4 * b) ELSE SinTurn(4 * a + b - 4 * b, 4 * b)

CosOf(i, n) ==
    IF n > 3 THEN CosTurn(i, n)
    ELSE IF i = 0 THEN 100
    ELSE IF n = 2 THEN -100
    ELSE -50
SinOf(i, n) ==
    IF n > 3 THEN SinTurn(i, n)
    ELSE IF i = 0 \/ n = 2 THEN 0
    ELSE IF i = 1 THEN 87
    ELSE -87
SinTiny(i, n) == i > 0 /\ 2 * i = n

\* layoutNode.y + Math.sin(angle) * radius.  A product of order 1e-15 is absorbed
\* by a base of 100 units and survives next to a base of exactly 0, where the model
\* keeps it as one hundredth.
PlusSin(base, i, n, radius) ==
    IF SinTiny(i, n) THEN (IF base = 0 THEN 1 ELSE base)
    ELSE base + SinOf(i, n) * radius

\* positionMap entries that the LayoutNode at position p sets; radius[k] is the
\* value of 20 + Math.random() * 30 drawn for graph node k.
EntriesOf(g, nodes, p, radius) ==
    LET assigned == AssignedMembers(g, nodes, p)
    IN  [m \in 1..Len(assigned) |->
            [id  |-> g.nodes[assigned[m]].id,
             x   |-> nodes[p].x + CosOf(m - 1, Len(assigned)) * radius[assigned[m]],
             y   |-> PlusSin(nodes[p].y, m - 1, Len(assigned), radius[assigned[m]]),
             hue |-> nodes[p].hue]]

RECURSIVE PositionEntries(_, _, _, _)
PositionEntries(g, nodes, p, radius) ==
    IF p > Len(nodes) THEN <<>>
    ELSE EntriesOf(g, nodes, p, radius) \o PositionEntries(g, nodes, p + 1, radius)

\* positionMap.get(String(node.id)): the last entry set for the id
Lookup(entries, id) ==
    IF \E k \in 1..Len(entries) : entries[k].id = id
    THEN <<entries[CHOOSE k \in 1..Len(entries) :
                      entries[k].id = id /\ \A m \in (k + 1)..Len(entries) : entries[m].id # id]>>
    ELSE <<>>

\* Graph nodes that no LayoutNode's slice holds
Unassigned(g, nodes) ==
    {k \in 1..Len(g.nodes) :
        \A p \in 1..Len(nodes) : k \notin Range(AssignedMembers(g, nodes, p))}

\* finalizeLayout: graph.nodes with x, y, hue; offset[k] is the pair of fallback
\* offsets (Math.random() - 0.5) * 100 of graph node k.  placed = FALSE is a node
\* whose x and y stay undefined.
finalizeLayout(g, nodes, radius, offset) ==
    LET entries == PositionEntries(g, nodes, 1, radius)
    IN  [k \in 1..Len(g.nodes) |->
            LET pos      == Lookup(entries, g.nodes[k].id)
                fallback == FirstOfCluster(nodes, g.nodes[k].community)
            IN  IF pos # <<>>
                THEN [id |-> g.nodes[k].id, community |-> g.nodes[k].community,
                      placed |-> TRUE, x |-> pos[1].x, y |-> pos[1].y, hue |-> pos[1].hue]
                ELSE IF fallback # <<>>
                THEN [id |-> g.nodes[k].id, community |-> g.nodes[k].community,
                      placed |-> TRUE,
                      x |-> nodes[fallback[1]].x + offset[k][1],
                      y |-> nodes[fallback[1]].y + offset[k][2],
                      hue |-> nodes[fallback[1]].hue]
                ELSE [id |-> g.nodes[k].id, community |-> g.nodes[k].community,
                      placed |-> FALSE, x |-> 0, y |-> 0, hue |-> Zero]]

-----------------------------------------------------------------------------
(* generate-layout-hierarchical.js: main(), normalisation and output.      *)

\* A serialized number: <<v>>, or NaN (which JSON.stringify writes as null)
Num(v) == <<v>>
NaN    == <<>>

\* Math.round of a fraction that is not negative
RoundFrac(f) == (2 * f[1] + f[2]) \div (2 * f[2])

MinOf(S) == CHOOSE v \in S : \A w \in S : v <= w
MaxOf(S) == CHOOSE v \in S : \A w \in S : v >= w

\* Math.round(((v - min) / range) * scale), with min and max folded over `all`.
\* An undefined coordinate makes min, max and the range NaN; a range of 0 makes the
\* quotient 0/0.
Normalize(v, all, defined) ==
    IF ~defined \/ all = {} THEN NaN
    ELSE LET lo == MinOf(all)
             range == MaxOf(all) - MinOf(all)
         IN  IF range = 0 THEN NaN
             ELSE Num(RoundFrac(<<(v - lo) * worldScale, range>>))

\* The document written to layout.compact.json
Serialize(g, nodes) ==
    LET xs == {nodes[k].x : k \in 1..Len(nodes)}
        ys == {nodes[k].y : k \in 1..Len(nodes)}
        defined == \A k \in 1..Len(nodes) : nodes[k].placed
    IN  [nodes |-> [k \in 1..Len(nodes) |->
                      [id |-> ToString(nodes[k].id),
                       c  |-> nodes[k].community,
                       h  |-> RoundFrac(nodes[k].hue),
                       x  |-> Normalize(nodes[k].x, xs, defined),
                       y  |-> Normalize(nodes[k].y, ys, defined)]],
         edges |-> [k \in 1..Len(g.edges) |->
                      <<g.edges[k].source, g.edges[k].target, g.edges[k].weight>>],
         bounds |-> [width |-> worldScale, height |-> worldScale]]

-----------------------------------------------------------------------------
(* SpecLayout: the layout script, started up to MaxRuns times on one graph. *)

MaxNodes == 2      \* most nodes of graph.json
MaxRuns  == 2      \* how often the layout script is started

CommunityIds == {0, 1}

\* Where the simulation may leave a LayoutNode
PosSet == {<<0, 0>>, <<100 * Unit, 0>>, <<0, 100 * Unit>>}
\* (Math.random() - 0.5) * 50 for x and y
JitterSet == {<<-25 * Unit, 10 * Unit>>, <<0, 0>>}
\* 20 + Math.random() * 30
RadiusSet == {20, 40}
\* (Math.random() - 0.5) * 100 for x and y
OffsetSet == {<<-(FallbackSpan \div 2) * Unit, 0>>, <<0, 30 * Unit>>}

\* graph.json as the compute scripts write it: every node has an edge.  One node
\* needs a self-loop (a recommendation of itself), n nodes are chained.
GraphEdges(n) ==
    IF n = 1 THEN <<[source |-> 1, target |-> 1, weight |-> One]>>
    ELSE [k \in 1..(n - 1) |-> [source |-> k, target |-> k + 1, weight |-> <<1, 2>>]]

LayoutGraphs ==
    {[nodes |-> [k \in 1..n |-> [id |-> k, community |-> comm[k]]],
      edges |-> GraphEdges(n)] :
        n \in 0..MaxNodes, comm \in [1..MaxNodes -> CommunityIds]}

InitLayout ==
    /\ layoutGraph \in LayoutGraphs
    /\ pcL = "start"
    /\ currentTier = 0
    /\ layoutNodes = <<>>
    /\ layoutEdges = <<>>
    /\ positioned = <<>>
    /\ layoutFile = <<>>
    /\ prevLayoutFile = <<>>
    /\ runCount = 1
    /\ ScoreIdle
    /\ MetaIdle
    /\ ExtraIdle

\* main -> runSimulation: createInitialNodes, createEdges, runTier(nodes, edges, 500)
StartLayout ==
    /\ pcL = "start"
    /\ \E perm \in Shuffles(Max(0, Len(CommunityKeys(layoutGraph)) - 2)) :
          layoutNodes' = createInitialNodes(layoutGraph, perm)
    /\ layoutEdges' = createEdges(layoutGraph, layoutNodes')
    /\ currentTier' = 0
    /\ pcL' = "running"
    /\ UNCHANGED <<layoutGraph, positioned, layoutFile, prevLayoutFile, runCount,
                   scoreVars, metaVars, extraVars>>

\* runTier: the simulation ticks until tickCount >= iterations, is stopped, and
\* the promise resolves
RunTier ==
    /\ pcL = "running"
    /\ \E pos \in [1..Len(layoutNodes) -> PosSet] :
          layoutNodes' = [k \in 1..Len(layoutNodes) |->
                            [layoutNodes[k] EXCEPT !.x = pos[k][1], !.y = pos[k][2]]]
    /\ pcL' = "settled"
    /\ UNCHANGED <<layoutGraph, currentTier, layoutEdges, positioned, layoutFile,
                   prevLayoutFile, runCount, scoreVars, metaVars, extraVars>>

\* for (this.currentTier = 1; this.currentTier <= this.maxTier; this.currentTier++)
\*   subdivideNodes, createEdges, runTier(nodes, edges, 300)
Subdivide ==
    /\ pcL = "settled"
    /\ currentTier < maxTier
    /\ currentTier' = currentTier + 1
    /\ \E jitter \in [1..ChildCount(layoutGraph, layoutNodes, currentTier + 1) -> JitterSet] :
          layoutNodes' = subdivideNodes(layoutGraph, layoutNodes, currentTier + 1, jitter)
    /\ layoutEdges' = createEdges(layoutGraph, layoutNodes')
    /\ pcL' = "running"
    /\ UNCHANGED <<layoutGraph, positioned, layoutFile, prevLayoutFile, runCount,
                   scoreVars, metaVars, extraVars>>

\* return this.finalizeLayout(nodes), the loop having ended at maxTier + 1
FinalizeLayout ==
    /\ pcL = "settled"
    /\ currentTier = maxTier
    /\ currentTier' = maxTier + 1
    /\ \E radius \in [1..Len(layoutGraph.nodes) -> RadiusSet],
          offset \in [Unassigned(layoutGraph, layoutNodes) -> OffsetSet] :
          positioned' = finalizeLayout(layoutGraph, layoutNodes, radius, offset)
    /\ pcL' = "finalized"
    /\ UNCHANGED <<layoutGraph, layoutNodes, layoutEdges, layoutFile, prevLayoutFile,
                   runCount, scoreVars, metaVars, extraVars>>

\* main: normalise to world space and write layout.compact.json
WriteLayout ==
    /\ pcL = "finalized"
    /\ layoutFile' = <<Serialize(layoutGraph, positioned)>>
    /\ pcL' = "saved"
    /\ UNCHANGED <<layoutGraph, currentTier, layoutNodes, layoutEdges, positioned,
                   prevLayoutFile, runCount, scoreVars, metaVars, extraVars>>

\* The script is started again on the same graph.json and configuration
Rerun ==
    /\ pcL = "saved"
    /\ runCount < MaxRuns
    /\ runCount' = runCount + 1
    /\ prevLayoutFile' = layoutFile
    /\ pcL' = "start"
    /\ currentTier' = 0
    /\ layoutNodes' = <<>>
    /\ layoutEdges' = <<>>
    /\ positioned' = <<>>
    /\ UNCHANGED <<layoutGraph, layoutFile, scoreVars, metaVars, extraVars>>

NextLayout ==
    StartLayout \/ RunTier \/ Subdivide \/ FinalizeLayout \/ WriteLayout \/ Rerun

SpecLayout == InitLayout /\ [][NextLayout]_vars

-----------------------------------------------------------------------------
(* SpecTiers: createInitialNodes, createEdges and subdivideNodes applied    *)
(* tier after tier to graphs of several and of large communities.  The     *)
(* positions the simulation leaves enter none of the three beyond the       *)
(* children's start points, so the LayoutNodes stay where they are created. *)

MaxCommunities == 4     \* most communities of a graph of small communities
MaxSize        == 2     \* most members of a small community

\* Member counts around the multiples of SubgroupSize
LargeSizes == {50, 51, 101, 201}

RECURSIVE SumTo(_, _)
SumTo(sizes, c) == IF c = 0 THEN 0 ELSE sizes[c] + SumTo(sizes, c - 1)

\* Index of the first node of the c-th community
FirstMember(sizes, c) == SumTo(sizes, c - 1) + 1

\* Edges between the first members of consecutive communities
ChainEdges(sizes) ==
    [c \in 1..(Len(sizes) - 1) |->
        [source |-> FirstMember(sizes, c), target |-> FirstMember(sizes, c + 1),
         weight |-> <<3, 4>>]]

\* A second and a third edge between the first two communities (one of weight 0),
\* an edge inside the first community, and an edge to an id that is no node
MoreEdges(sizes) ==
    (IF Len(sizes) >= 2
     THEN <<[source |-> FirstMember(sizes, 2), target |-> sizes[1], weight |-> <<1, 4>>],
            [source |-> 1, target |-> FirstMember(sizes, 2), weight |-> Zero]>>
     ELSE <<>>)
    \o (IF sizes[1] >= 2 THEN <<[source |-> 1, target |-> 2, weight |-> One]>> ELSE <<>>)
    \o <<[source |-> 1, target |-> SumTo(sizes, Len(sizes)) + 1, weight |-> One]>>

\* graph.json with communities 0 .. Len(sizes) - 1 of the given sizes
GraphOfSizes(sizes, more) ==
    [nodes |-> [k \in 1..SumTo(sizes, Len(sizes)) |->
                  [id |-> k,
                   community |-> (CHOOSE c \in 1..Len(sizes) :
                                     /\ FirstMember(sizes, c) <= k
                                     /\ k < FirstMember(sizes, c + 1)) - 1]],
     edges |-> ChainEdges(sizes) \o (IF more THEN MoreEdges(sizes) ELSE <<>>)]

\* graph.json as the user-similarity script writes it: no node has a community
WithoutCommunity(g) ==
    [g EXCEPT !.nodes = [k \in 1..Len(g.nodes) |-> [g.nodes[k] EXCEPT !.community = NoCommunity]]]

TierGraphs ==
    {GraphOfSizes(sizes, more) :
        sizes \in UNION {[1..k -> 1..MaxSize] : k \in 1..MaxCommunities},
        more \in BOOLEAN}
    \cup {GraphOfSizes(<<m, 1>>, FALSE) : m \in LargeSizes}
    \cup {WithoutCommunity(GraphOfSizes(<<2>>, TRUE))}

InitTiers ==
    /\ layoutGraph \in TierGraphs
    /\ pcL = "start"
    /\ currentTier = 0
    /\ layoutNodes = <<>>
    /\ layoutEdges = <<>>
    /\ positioned = <<>>
    /\ layoutFile = <<>>
    /\ prevLayoutFile = <<>>
    /\ runCount = 1
    /\ ScoreIdle
    /\ MetaIdle
    /\ ExtraIdle

\* runSimulation, tier 0: createInitialNodes and createEdges
TierStart ==
    /\ pcL = "start"
    /\ \E perm \in Shuffles(Max(0, Len(CommunityKeys(layoutGraph)) - 2)) :
          layoutNodes' = createInitialNodes(layoutGraph, perm)
    /\ layoutEdges' = createEdges(layoutGraph, layoutNodes')
    /\ currentTier' = 0
    /\ pcL' = "tier"
    /\ UNCHANGED <<layoutGraph, positioned, layoutFile, prevLayoutFile, runCount,
                   scoreVars, metaVars, extraVars>>

\* runSimulation, tiers 1..maxTier: subdivideNodes and createEdges; every child
\* draws the same jitter
TierSubdivide ==
    /\ pcL = "tier"
    /\ currentTier < maxTier
    /\ currentTier' = currentTier + 1
    /\ \E j \in JitterSet :
          layoutNodes' =
              subdivideNodes(layoutGraph, layoutNodes, currentTier + 1,
                             [k \in 1..ChildCount(layoutGraph, layoutNodes, currentTier + 1)
                                 |-> j])
    /\ layoutEdges' = createEdges(layoutGraph, layoutNodes')
    /\ UNCHANGED <<layoutGraph, pcL, positioned, layoutFile, prevLayoutFile, runCount,
                   scoreVars, metaVars, extraVars>>

\* return this.finalizeLayout(nodes); every member draws the same radius
TierFinalize ==
    /\ pcL = "tier"
    /\ currentTier = maxTier
    /\ currentTier' = maxTier + 1
    /\ \E r \in RadiusSet, o \in OffsetSet :
          positioned' =
              finalizeLayout(layoutGraph, layoutNodes,
                             [k \in 1..Len(layoutGraph.nodes) |-> r],
                             [k \in Unassigned(layoutGraph, layoutNodes) |-> o])
    /\ pcL' = "placed"
    /\ UNCHANGED <<layoutGraph, layoutNodes, layoutEdges, layoutFile, prevLayoutFile,
                   runCount, scoreVars, metaVars, extraVars>>

NextTiers == TierStart \/ TierSubdivide \/ TierFinalize

SpecTiers == InitTiers /\ [][NextTiers]_vars

-----------------------------------------------------------------------------
(* SpecTicks: runSimulation and runTier tick by tick.  A simulation is a    *)
(* record of `sims`; d3's timer delivers the ticks of a simulation for as   *)
(* long as it has not been stopped.                                         *)

Tier0Iterations == 500
TierIterations  == 300

\* alpha of a d3 simulation in units of 1/AlphaUnit: a new simulation has
\* alpha 1 and alphaMin 0.001; runTier sets alphaDecay(0.005)
AlphaUnit          == 100000000
alphaMin           == AlphaUnit \div 1000
alphaDecayPerMille == 5

\* d3's tick(): alpha += (alphaTarget - alpha) * alphaDecay with alphaTarget 0;
\* the decrement is rounded up, so alpha is never above its exact value
DecayFast(alpha) == alpha - ((alpha * 4 * alphaDecayPerMille + 999) \div 1000)
Decay(alpha) == alpha - ((alpha * alphaDecayPerMille + 999) \div 1000)

\* forceSimulation(nodes) as runTier creates it for a tier
Simulation(tier, iterations) ==
    [tier |-> tier, iterations |-> iterations, tickCount |-> 0,
     alpha |-> AlphaUnit, live |-> TRUE, resolved |-> FALSE]

\* if (tickCount >= iterations) { this.simulation.stop(); resolve(); }
StopsLate(tickCount, iterations) == tickCount > iterations
Stops(tickCount, iterations) == tickCount >= iterations

TickGraphs ==
    {GraphOfSizes(<<1>>, FALSE), GraphOfSizes(<<2>>, FALSE), GraphOfSizes(<<1, 1>>, FALSE)}

InitTicks ==
    /\ layoutGraph \in TickGraphs
    /\ pcL = "start"
    /\ currentTier = 0
    /\ layoutNodes = <<>>
    /\ layoutEdges = <<>>
    /\ positioned = <<>>
    /\ layoutFile = <<>>
    /\ prevLayoutFile = <<>>
    /\ runCount = 1
    /\ sims = <<>>
    /\ ScoreIdle
    /\ MetaIdle
    /\ LabelIdle
    /\ RecIdle
    /\ MoreIdle

\* runSimulation up to `await this.runTier(nodes, edges, 500)`
BeginTier0 ==
    /\ pcL = "start"
    /\ \E perm \in Shuffles(Max(0, Len(CommunityKeys(layoutGraph)) - 2)) :
          layoutNodes' = createInitialNodes(layoutGraph, perm)
    /\ layoutEdges' = createEdges(layoutGraph, layoutNodes')
    /\ currentTier' = 0
    /\ sims' = Append(sims, Simulation(0, Tier0Iterations))
    /\ pcL' = "awaiting"
    /\ UNCHANGED <<layoutGraph, positioned, layoutFile, prevLayoutFile, runCount,
                   scoreVars, metaVars, labelVars, recVars, moreVars>>

\* One step of a simulation that has not been stopped: d3 cools alpha, moves
\* the nodes and calls the 'tick' handler of runTier (which normalises the
\* density on every tenth tick and stops the simulation at the requested
\* count); after the handler d3 stops the timer itself once alpha is below
\* alphaMin.  The nodes are where the simulation and the normalisation have
\* left them, which is observed at the tick that resolves.
Tick ==
    /\ \E s \in 1..Len(sims) :
          /\ sims[s].live
          /\ LET count == sims[s].tickCount + 1
                 alpha == Decay(sims[s].alpha)
             IN  IF Stops(count, sims[s].iterations)
                 THEN /\ sims' = [sims EXCEPT ![s].tickCount = count,
                                              ![s].alpha = alpha,
                                              ![s].live = FALSE,
                                              ![s].resolved = TRUE]
                      /\ \E pos \in [1..Len(layoutNodes) -> PosSet] :
                            layoutNodes' =
                                [k \in 1..Len(layoutNodes) |->
                                    [layoutNodes[k] EXCEPT !.x = pos[k][1], !.y = pos[k][2]]]
                 ELSE /\ sims' = [sims EXCEPT ![s].tickCount = count,
                                              ![s].alpha = alpha,
                                              ![s].live = (alpha >= alphaMin)]
                      /\ UNCHANGED layoutNodes
    /\ UNCHANGED <<layoutGraph, pcL, currentTier, layoutEdges, positioned, layoutFile,
                   prevLayoutFile, runCount, scoreVars, metaVars, labelVars, recVars, moreVars>>

\* The await returns: the for loop starts the next tier
BeginNextTier ==
    /\ pcL = "awaiting"
    /\ sims[Len(sims)].resolved
    /\ currentTier < maxTier
    /\ currentTier' = currentTier + 1
    /\ \E jitter \in [1..ChildCount(layoutGraph, layoutNodes, currentTier + 1) -> JitterSet] :
          layoutNodes' = subdivideNodes(layoutGraph, layoutNodes, currentTier + 1, jitter)
    /\ layoutEdges' = createEdges(layoutGraph, layoutNodes')
    /\ sims' = Append(sims, Simulation(currentTier + 1, TierIterations))
    /\ UNCHANGED <<layoutGraph, pcL, positioned, layoutFile, prevLayoutFile, runCount,
                   scoreVars, metaVars, labelVars, recVars, moreVars>>

\* The await of the last tier returns: return this.finalizeLayout(nodes)
FinishSimulation ==
    /\ pcL = "awaiting"
    /\ sims[Len(sims)].resolved
    /\ currentTier = maxTier
    /\ currentTier' = maxTier + 1
    /\ \E radius \in [1..Len(layoutGraph.nodes) -> RadiusSet],
          offset \in [Unassigned(layoutGraph, layoutNodes) -> OffsetSet] :
          positioned' = finalizeLayout(layoutGraph, layoutNodes, radius, offset)
    /\ pcL' = "finalized"
    /\ UNCHANGED <<layoutGraph, layoutNodes, layoutEdges, layoutFile, prevLayoutFile,
                   runCount, sims, scoreVars, metaVars, labelVars, recVars, moreVars>>

NextTicks == BeginTier0 \/ Tick \/ BeginNextTier \/ FinishSimulation

SpecTicks == InitTicks /\ [][NextTicks]_vars

\* d3's timer keeps delivering the steps of a simulation that has not been
\* stopped, and the awaits of runSimulation continue once they are resolved
SpecTicksLive == SpecTicks /\ WF_vars(NextTicks)

-----------------------------------------------------------------------------
(* detectCommunities of the user-similarity script: label propagation.     *)

maxIterations == 10

\* adjacency.get(id): the neighbours of a node, in the order the edges push them
RECURSIVE AdjacencyFrom(_, _, _)
AdjacencyFrom(es, id, k) ==
    IF k > Len(es) THEN <<>>
    ELSE (IF es[k].source = id
          THEN <<[id |-> es[k].target, weight |-> es[k].weight]>> ELSE <<>>)
         \o (IF es[k].target = id
             THEN <<[id |-> es[k].source, weight |-> es[k].weight]>> ELSE <<>>)
         \o AdjacencyFrom(es, id, k + 1)

Adjacency(g, id) == AdjacencyFrom(g.edges, id, 1)

\* communityWeights.set(comm, (communityWeights.get(comm) || 0) + weight) on a Map
\* kept as the sequence of its entries in insertion order
MapAdd(entries, comm, weight) ==
    IF \E k \in 1..Len(entries) : entries[k].comm = comm
    THEN [k \in 1..Len(entries) |->
            IF entries[k].comm = comm
            THEN [comm |-> comm, weight |-> entries[k].weight + weight]
            ELSE entries[k]]
    ELSE Append(entries, [comm |-> comm, weight |-> weight])

RECURSIVE CommunityWeightsFrom(_, _, _, _)
CommunityWeightsFrom(neighbors, comms, k, entries) ==
    IF k > Len(neighbors) THEN entries
    ELSE CommunityWeightsFrom(neighbors, comms, k + 1,
                              MapAdd(entries, comms[neighbors[k].id], neighbors[k].weight))

communityWeights(g, comms, id) == CommunityWeightsFrom(Adjacency(g, id), comms, 1, <<>>)

\* for (const [comm, weight] of communityWeights) if (weight > maxWeight) ...
RECURSIVE BestFrom(_, _, _, _)
BestFrom(entries, k, maxWeight, best) ==
    IF k > Len(entries) THEN best
    ELSE IF entries[k].weight > maxWeight
         THEN BestFrom(entries, k + 1, entries[k].weight, entries[k].comm)
         ELSE BestFrom(entries, k + 1, maxWeight, best)

\* bestCommunity of one node: its current label unless the scan finds a weight > 0
bestCommunity(g, comms, id) ==
    IF Adjacency(g, id) = <<>> THEN comms[id]
    ELSE BestFrom(communityWeights(g, comms, id), 1, 0, comms[id])

\* while (changed && iterations < maxIterations)
ContinueUncapped(changed, iterations) == changed
Continue(changed, iterations) == changed /\ iterations < maxIterations

\* node.community: labels renumbered in order of first appearance
FirstWith(g, comms, label) ==
    CHOOSE k \in 1..Len(g.nodes) :
        /\ comms[g.nodes[k].id] = label
        /\ \A j \in 1..(k - 1) : comms[g.nodes[j].id] # label

communityId(g, comms, k) ==
    Cardinality({comms[g.nodes[j].id] : j \in 1..FirstWith(g, comms, comms[g.nodes[k].id])}) - 1

-----------------------------------------------------------------------------
(* SpecLabel: detectCommunities (label propagation) on one graph.          *)

MaxLPNodes == 3     \* most nodes of a graph whose every edge set is tried
MaxPath    == 11    \* most nodes of a path graph

LPWeights == {1, 2}

\* Pairs i < j in the order the similarity loops emit them
RECURSIVE PairsFrom(_, _, _)
PairsFrom(i, j, n) ==
    IF i >= n THEN <<>>
    ELSE IF j > n THEN PairsFrom(i + 1, i + 2, n)
    ELSE <<<<i, j>>>> \o PairsFrom(i, j + 1, n)

\* The graph of n nodes whose pair p has weight w[p] (0: no edge)
GraphOfWeights(n, w) ==
    LET pairs == PairsFrom(1, 2, n)
        kept  == SelectSeq([k \in 1..Len(pairs) |-> k], LAMBDA k : w[k] # 0)
    IN  [nodes |-> [k \in 1..n |-> [id |-> k]],
         edges |-> [k \in 1..Len(kept) |->
                      [source |-> pairs[kept[k]][1], target |-> pairs[kept[k]][2],
                       weight |-> w[kept[k]]]]]

\* buildGraph keeps only nodes that have an edge
Connected(g) ==
    \A k \in 1..Len(g.nodes) : Adjacency(g, g.nodes[k].id) # <<>>

\* The path 1 - 2 - ... - n whose edge (k, k+1) has weight k
PathGraph(n) ==
    [nodes |-> [k \in 1..n |-> [id |-> k]],
     edges |-> [k \in 1..(n - 1) |-> [source |-> k, target |-> k + 1, weight |-> k]]]

LPGraphs ==
    {g \in {GraphOfWeights(n, w) :
              n \in 2..MaxLPNodes,
              w \in [1..((MaxLPNodes * (MaxLPNodes - 1)) \div 2) -> LPWeights \cup {0}]} :
        Connected(g)}
    \cup {PathGraph(n) : n \in 2..MaxPath}

\* detectCommunities up to the while loop: adjacency, own label for every node
InitLabel ==
    /\ lpGraph \in LPGraphs
    /\ pcLP = "while"
    /\ lpCommunities = [id \in {lpGraph.nodes[k].id : k \in 1..Len(lpGraph.nodes)} |-> id]
    /\ lpChanged = TRUE
    /\ lpIterations = 0
    /\ lpCursor = 0
    /\ lpStart = <<>>
    /\ ScoreIdle
    /\ MetaIdle
    /\ LayoutIdle
    /\ TickIdle
    /\ RecIdle
    /\ MoreIdle

\* while (changed && iterations < maxIterations) { changed = false; iterations++; ...
WhileTest ==
    /\ pcLP = "while"
    /\ IF Continue(lpChanged, lpIterations)
       THEN /\ lpChanged' = FALSE
            /\ lpIterations' = lpIterations + 1
            /\ lpCursor' = 1
            /\ lpStart' = lpCommunities
            /\ pcLP' = "for"
       ELSE /\ pcLP' = "assign"
            /\ UNCHANGED <<lpChanged, lpIterations, lpCursor, lpStart>>
    /\ UNCHANGED <<lpGraph, lpCommunities, scoreVars, metaVars, layoutVars, tickVars,
                   recVars, moreVars>>

\* One pass of the body of `for (const node of graph.nodes)`
VisitNode ==
    /\ pcLP = "for"
    /\ lpCursor <= Len(lpGraph.nodes)
    /\ LET id   == lpGraph.nodes[lpCursor].id
           best == bestCommunity(lpGraph, lpCommunities, id)
       IN  /\ lpCommunities' = [lpCommunities EXCEPT ![id] = best]
           /\ lpChanged' = (lpChanged \/ best # lpCommunities[id])
    /\ lpCursor' = lpCursor + 1
    /\ UNCHANGED <<lpGraph, pcLP, lpIterations, lpStart, scoreVars, metaVars,
                   layoutVars, tickVars, recVars, moreVars>>

\* The for loop has visited every node: back to the while test
EndFor ==
    /\ pcLP = "for"
    /\ lpCursor > Len(lpGraph.nodes)
    /\ pcLP' = "while"
    /\ UNCHANGED <<lpGraph, lpCommunities, lpChanged, lpIterations, lpCursor, lpStart,
                   scoreVars, metaVars, layoutVars, tickVars, recVars, moreVars>>

\* graph.nodes.forEach(node => node.community = communityIds.get(comm))
AssignCommunityIds ==
    /\ pcLP = "assign"
    /\ lpGraph' = [lpGraph EXCEPT !.nodes =
                     [k \in 1..Len(lpGraph.nodes) |->
                        [id |-> lpGraph.nodes[k].id,
                         community |-> communityId(lpGraph, lpCommunities, k)]]]
    /\ pcLP' = "done"
    /\ UNCHANGED <<lpCommunities, lpChanged, lpIterations, lpCursor, lpStart,
                   scoreVars, metaVars, layoutVars, tickVars, recVars, moreVars>>

NextLabel == WhileTest \/ VisitNode \/ EndFor \/ AssignCommunityIds

SpecLabel == InitLabel /\ [][NextLabel]_vars

\* detectCommunities is synchronous code: once called it runs to its end
SpecLabelLive == SpecLabel /\ WF_vars(NextLabel)

-----------------------------------------------------------------------------
(* buildRecommendationGraph of the recommendation script.                  *)

MIN_RATING == 0

\* Math.max(1, rating / 100)
recWeight(rating) == IF rating > 100 THEN Reduce(<<rating, 100>>) ELSE One

\* graph.hasEdge(a, b) on an undirected graph
hasEdge(es, a, b) ==
    \E k \in 1..Len(es) :
        \/ es[k].source = a /\ es[k].target = b
        \/ es[k].source = b /\ es[k].target = a

EdgeIndex(es, a, b) ==
    CHOOSE k \in 1..Len(es) :
        \/ es[k].source = a /\ es[k].target = b
        \/ es[k].source = b /\ es[k].target = a

\* The body of anime.recommendations.edges.forEach for one recommendation of
\* item `id`; ids are the keys of animeMap
addRecommendation(es, ids, id, rec) ==
    IF rec.rating < MIN_RATING THEN es
    ELSE IF rec.id \notin ids THEN es
    ELSE IF ~hasEdge(es, id, rec.id)
    THEN Append(es, [source |-> id, target |-> rec.id, weight |-> recWeight(rec.rating)])
    ELSE LET k == EdgeIndex(es, id, rec.id)
         IN  IF FracGT(recWeight(rec.rating), es[k].weight)
             THEN [es EXCEPT ![k].weight = recWeight(rec.rating)]
             ELSE es

RECURSIVE AddRecommendations(_, _, _, _, _)
AddRecommendations(es, ids, id, recs, k) ==
    IF k > Len(recs) THEN es
    ELSE AddRecommendations(addRecommendation(es, ids, id, recs[k]), ids, id, recs, k + 1)

RECURSIVE AddAllEdges(_, _, _, _)
AddAllEdges(es, ids, list, k) ==
    IF k > Len(list) THEN es
    ELSE AddAllEdges(AddRecommendations(es, ids, list[k].id, list[k].recommendations, 1),
                     ids, list, k + 1)

\* graph.degree(node) === 0
NeverIsolated(es, id) == FALSE
Isolated(es, id) == \A k \in 1..Len(es) : es[k].source # id /\ es[k].target # id

\* buildRecommendationGraph: nodes, edges, isolated nodes dropped
buildRecommendationGraph(list) ==
    LET ids == {list[k].id : k \in 1..Len(list)}
        es  == AddAllEdges(<<>>, ids, list, 1)
        all == [k \in 1..Len(list) |-> list[k].id]
    IN  [nodes |-> SelectSeq(all, LAMBDA id : ~Isolated(es, id)),
         edges |-> es]

\* The console lines of buildRecommendationGraph
recConsole(list) ==
    LET ids == {list[k].id : k \in 1..Len(list)}
        es  == AddAllEdges(<<>>, ids, list, 1)
        g   == buildRecommendationGraph(list)
    IN  [order      |-> Len(list),
         size       |-> Len(es),
         removed    |-> Len(list) - Len(g.nodes),
         finalOrder |-> Len(g.nodes),
         finalSize  |-> Len(g.edges)]

-----------------------------------------------------------------------------
(* SpecRec: buildRecommendationGraph on one anime list.                    *)

MaxRecs == 2        \* most recommendations of the first item

UnknownId  == 9     \* a recommended id that is not in the anime list
RecRatings == {-10, 0, 150, 250}

Rec(id, rating) == [id |-> id, rating |-> rating]

\* Recommendation lists of up to n entries over the targets
RecLists(targets, n) ==
    UNION {[1..m -> {Rec(t, r) : t \in targets, r \in RecRatings}] : m \in 0..n}

\* Item 1 recommends itself, item 2 or an unknown id; item 2 recommends item 1;
\* item 3 recommends nothing.
RecInputs ==
    {<<[id |-> 1, recommendations |-> r1],
       [id |-> 2, recommendations |-> r2],
       [id |-> 3, recommendations |-> <<>>]>> :
        r1 \in RecLists({1, 2, UnknownId}, MaxRecs), r2 \in RecLists({1}, 1)}

InitRec ==
    /\ recList \in RecInputs
    /\ pcR = "start"
    /\ recGraph = [nodes |-> <<>>, edges |-> <<>>]
    /\ recLog = <<>>
    /\ ScoreIdle
    /\ MetaIdle
    /\ LayoutIdle
    /\ TickIdle
    /\ LabelIdle
    /\ MoreIdle

BuildRecommendationGraph ==
    /\ pcR = "start"
    /\ recGraph' = buildRecommendationGraph(recList)
    /\ recLog' = recConsole(recList)
    /\ pcR' = "built"
    /\ UNCHANGED <<recList, scoreVars, metaVars, layoutVars, tickVars, labelVars, moreVars>>

NextRec == BuildRecommendationGraph

SpecRec == InitRec /\ [][NextRec]_vars

-----------------------------------------------------------------------------
(* Claims about the similarity score (SpecScore).                          *)

Scored == scoreAB # NoScore

Thresholds == {<<1, 100>>, <<1, 4>>, <<1, 2>>, <<3, 4>>, <<1, 1>>}

\* C1: metadata-mode similarity is symmetric: computeAnimeSimilarity(A,B) equals
\* computeAnimeSimilarity(B,A) for every pair, also when B is in A's related-id
\* list but A is not in B's.
C1_Symmetric == Scored => scoreAB = scoreBA

\* C2: every edge emitted by the metadata builder has MIN_SIMILARITY <= weight <= 1.0,
\* and no score is above 1.0 or below 0.
C2_WeightInRange ==
    Scored =>
        /\ FracGE(scoreAB, Zero) /\ FracGE(One, scoreAB)
        /\ \A e \in Range(pairEdges) :
              FracGE(e.weight, MIN_SIMILARITY) /\ FracGE(One, e.weight)

SameAttributes(a, b) ==
    /\ a.genres = b.genres
    /\ a.tags = b.tags
    /\ a.studios = b.studios
    /\ a.staff = b.staff
    /\ a.format = b.format
    /\ a.seasonYear = b.seasonYear

SomeFactorApplies(a, b) == SumWeights(Factors(a, b)) > 0

\* C3: two items identical on every applicable factor (at least one applying) score
\* exactly 1.0, so an edge is created at any threshold <= 1.0.
C3_IdenticalScoreOne ==
    (Scored /\ SameAttributes(animeA, animeB) /\ SomeFactorApplies(animeA, animeB)) =>
        /\ scoreAB = One
        /\ \A t \in Thresholds : Len(computeSimilaritiesAt(<<animeA, animeB>>, t)) = 1

TagNames(a) == {t.name : t \in Range(a.tags)}

\* no common genre, tag, studio or staff, different format, season-years outside
\* the window, no relation in either direction
ShareNothing(a, b) ==
    /\ Range(a.genres) \cap Range(b.genres) = {}
    /\ TagNames(a) \cap TagNames(b) = {}
    /\ Range(a.studios) \cap Range(b.studios) = {}
    /\ Range(a.staff) \cap Range(b.staff) = {}
    /\ a.format = NoFormat \/ b.format = NoFormat \/ a.format # b.format
    /\ a.seasonYear = NoYear \/ b.seasonYear = NoYear
          \/ Abs(a.seasonYear - b.seasonYear) >= 3
    /\ b.id \notin Range(a.relations)
    /\ a.id \notin Range(b.relations)

\* C4: two items that share nothing score exactly 0.0, and computeSimilarities emits
\* no edge for them at any threshold > 0.
C4_ShareNothingScoreZero ==
    (Scored /\ ShareNothing(animeA, animeB)) =>
        /\ scoreAB = Zero
        /\ scoreBA = Zero
        /\ pairEdges = <<>>
        /\ \A t \in Thresholds : computeSimilaritiesAt(<<animeA, animeB>>, t) = <<>>

\* C4 witness: a scored pair with disjoint genres, different formats and
\* season-years five apart, scoring 0 with the genre factor applied.
C4_Witness ==
    /\ Scored
    /\ ShareNothing(animeA, animeB)
    /\ animeA.genres = <<"Action">> /\ animeB.genres = <<"Romance">>
    /\ animeA.format = "TV" /\ animeB.format = "MOVIE"
    /\ animeA.seasonYear = 2020 /\ animeB.seasonYear = 2025
    /\ scoreAB = Zero
    /\ pairEdges = <<>>

-----------------------------------------------------------------------------
(* Claims about main() of the metadata script (SpecMeta).                  *)

EdgeSetAt(t) == Range(computeSimilaritiesAt(animeList, t))

\* C5: for a fixed item list and thresholds t1 <= t2 the edge set at t2 is a subset
\* of the edge set at t1, so raising the threshold never increases the edge count.
C5_ThresholdMonotone ==
    pcM = "scored" =>
        LET at == {<<t, computeSimilaritiesAt(animeList, t)>> : t \in Thresholds} IN
        /\ <<MIN_SIMILARITY, edges>> \in at
        /\ \A lo \in at, hi \in at :
              FracGE(hi[1], lo[1]) =>
                  /\ Range(hi[2]) \subseteq Range(lo[2])
                  /\ Len(hi[2]) <= Len(lo[2])

\* C5 witness: the computed edges (threshold 0.25) include an edge that the
\* threshold 0.75 drops and one that it keeps.
C5_Witness ==
    /\ pcM = "scored"
    /\ EdgeSetAt(<<3, 4>>) # {}
    /\ EdgeSetAt(<<3, 4>>) # Range(edges)
    /\ EdgeSetAt(<<3, 4>>) \subseteq Range(edges)

Detected == pcM \in {"detected", "saved"}

NodesOf(g, id) == {k \in 1..Len(g.nodes) : g.nodes[k].id = id}

HasOneCommunity(g, id) ==
    /\ Cardinality(NodesOf(g, id)) = 1
    /\ \A k \in NodesOf(g, id) : g.nodes[k].community \in 0..defaultCommunity

EdgeIds(es) == {e.source : e \in Range(es)} \cup {e.target : e \in Range(es)}

PriorityIndex(genre) == CHOOSE k \in 1..Len(primaryGenres) : primaryGenres[k] = genre

PrimaryOf(genres) == Range(genres) \cap Range(primaryGenres)

\* C10 (as claimed): each node gets the community of the earliest genre of the
\* priority list that it possesses, whatever the order of its own genre list; a
\* node with no listed genre gets the 'Other' community.
C10_EarliestInPriorityList ==
    Detected =>
        \A k \in 1..Len(graph.nodes) :
            LET node == graph.nodes[k] IN
            IF PrimaryOf(node.genres) = {} THEN node.community = defaultCommunity
            ELSE /\ node.community \in 0..(defaultCommunity - 1)
                 /\ primaryGenres[node.community + 1] \in PrimaryOf(node.genres)
                 /\ \A g \in PrimaryOf(node.genres) :
                       PriorityIndex(g) >= node.community + 1

\* C10 (amended): each node gets the community of the first genre of its own genre
\* list that is in the priority list; a node with no listed genre gets 'Other'.
C10_FirstOwnListedGenre ==
    Detected =>
        \A k \in 1..Len(graph.nodes) :
            LET node == graph.nodes[k] IN
            IF PrimaryOf(node.genres) = {} THEN node.community = defaultCommunity
            ELSE \E p \in 1..Len(node.genres) :
                    /\ node.genres[p] = primaryGenres[node.community + 1]
                    /\ \A q \in 1..(p - 1) : node.genres[q] \notin Range(primaryGenres)

\* C10 witness: detection has run on a graph holding a [Drama, Action] node in
\* Drama's community, an [Action, Drama] node in Action's, and a node with no
\* listed genre in 'Other'.
C10_Witness ==
    /\ Detected
    /\ \E k \in 1..Len(graph.nodes) :
          graph.nodes[k].genres = <<"Drama", "Action">> /\ graph.nodes[k].community = 3
    /\ \E k \in 1..Len(graph.nodes) :
          graph.nodes[k].genres = <<"Action", "Drama">> /\ graph.nodes[k].community = 0
    /\ \E k \in 1..Len(graph.nodes) :
          graph.nodes[k].genres = <<"Music">> /\ graph.nodes[k].community = defaultCommunity

-----------------------------------------------------------------------------
(* Claims about the layout output (SpecLayout).                            *)

Written == pcL = "saved"

InWorld(c) == c # NaN /\ c[1] \in 0..worldScale

\* C7: every serialized item coordinate x and y is an integer in [0, worldScale],
\* for every item and every outcome of the random jitter, shuffle and placement.
C7_CoordinatesInWorld ==
    Written =>
        \A k \in 1..Len(layoutFile[1].nodes) :
            InWorld(layoutFile[1].nodes[k].x) /\ InWorld(layoutFile[1].nodes[k].y)

ZeroWidth  == \A j, k \in 1..Len(positioned) : positioned[j].x = positioned[k].x
ZeroHeight == \A j, k \in 1..Len(positioned) : positioned[j].y = positioned[k].y

\* C8: when the bounding box of the final positions has zero width (zero height),
\* the written x (y) of every item is the integer 0, and no written coordinate is
\* NaN.
C8_ZeroRangeEmitsZero ==
    Written =>
        /\ ZeroWidth  => \A k \in 1..Len(layoutFile[1].nodes) :
                            layoutFile[1].nodes[k].x = Num(0)
        /\ ZeroHeight => \A k \in 1..Len(layoutFile[1].nodes) :
                            layoutFile[1].nodes[k].y = Num(0)

\* C9: two runs of the layout on the same graph and configuration write the
\* identical document.
C9_RerunSameDocument ==
    (Written /\ prevLayoutFile # <<>>) => layoutFile = prevLayoutFile

-----------------------------------------------------------------------------
(* Claims about label propagation (SpecLabel, SpecLabelLive).              *)

Visiting == pcLP = "for" /\ lpCursor <= Len(lpGraph.nodes)

\* Total weight the neighbours of a node give to a label
WeightFor(entries, comm) ==
    IF \E k \in 1..Len(entries) : entries[k].comm = comm
    THEN entries[CHOOSE k \in 1..Len(entries) : entries[k].comm = comm].weight
    ELSE 0

\* C11: a node changes its label only to one whose total neighbour weight is
\* strictly greater than that of every other candidate and of its current label;
\* on a tie for the highest weight it keeps its label.
C11_TiesKeepLabel ==
    [][Visiting =>
        LET id      == lpGraph.nodes[lpCursor].id
            entries == communityWeights(lpGraph, lpCommunities, id)
            current == lpCommunities[id]
            new     == lpCommunities'[id]
            others  == ({entries[k].comm : k \in 1..Len(entries)} \cup {current}) \ {new}
        IN  new # current =>
                \A c \in others : WeightFor(entries, new) > WeightFor(entries, c)]_vars

\* C12: label propagation runs at most maxIterations iterations, leaves the loop
\* right after an iteration that changed no label, and always reaches its end.
C12_Terminates ==
    /\ [](lpIterations <= maxIterations)
    /\ [][(pcLP = "while" /\ ~lpChanged) => pcLP' = "assign"]_vars
    /\ <>(pcLP = "done")

\* The loop was cut off by the iteration bound while labels were still changing
C12_Witness == pcLP = "done" /\ lpIterations = maxIterations /\ lpChanged

\* C13: at the end of an iteration every node holds the label computed from the
\* labels all nodes held when the iteration began.
C13_Synchronous ==
    (pcLP = "for" /\ lpCursor > Len(lpGraph.nodes)) =>
        lpCommunities = [id \in DOMAIN lpStart |-> bestCommunity(lpGraph, lpStart, id)]

-----------------------------------------------------------------------------
(* Claims about the recommendation graph (SpecRec).                        *)

Built == pcR = "built"

\* The recommendations that link items a and b, in either direction
Linking(a, b) ==
    {<<k, m>> \in (1..Len(recList)) \X (1..(MaxRecs + 1)) :
        /\ m <= Len(recList[k].recommendations)
        /\ \/ recList[k].id = a /\ recList[k].recommendations[m].id = b
           \/ recList[k].id = b /\ recList[k].recommendations[m].id = a}

LinkWeights(a, b) ==
    {recWeight(recList[p[1]].recommendations[p[2]].rating) : p \in Linking(a, b)}

EdgesJoining(a, b) ==
    {k \in 1..Len(recGraph.edges) :
        \/ recGraph.edges[k].source = a /\ recGraph.edges[k].target = b
        \/ recGraph.edges[k].source = b /\ recGraph.edges[k].target = a}

\* C14: every pair of distinct known items linked by at least one recommendation
\* has exactly one edge, whose weight is the largest max(rating/100, 1) among
\* those recommendations.
C14_OneEdgeMaxWeight ==
    Built =>
        \A k, m \in 1..Len(recList) :
            LET a == recList[k].id
                b == recList[m].id
            IN  (k < m /\ Linking(a, b) # {}) =>
                    /\ Cardinality(EdgesJoining(a, b)) = 1
                    /\ \A e \in EdgesJoining(a, b) :
                          /\ recGraph.edges[e].weight \in LinkWeights(a, b)
                          /\ \A w \in LinkWeights(a, b) :
                                FracGE(recGraph.edges[e].weight, w)

\* C15: no edge of the recommendation graph joins an item to itself.
C15_NoSelfPair ==
    Built => \A k \in 1..Len(recGraph.edges) :
                 recGraph.edges[k].source # recGraph.edges[k].target

\* Recommendations of an id that is no item of the list
SkippedCount ==
    Cardinality({<<k, m>> \in (1..Len(recList)) \X (1..(MaxRecs + 1)) :
                    /\ m <= Len(recList[k].recommendations)
                    /\ \A j \in 1..Len(recList) :
                          recList[j].id # recList[k].recommendations[m].id})

\* C16: recommendations of an unknown id add no edge, and their number is
\* recorded in what the run reports.
C16_SkippedCounted ==
    (Built /\ SkippedCount > 0) =>
        /\ \A k \in 1..Len(recGraph.edges) :
              /\ recGraph.edges[k].source # UnknownId
              /\ recGraph.edges[k].target # UnknownId
        /\ "skipped" \in DOMAIN recLog
        /\ recLog.skipped = SkippedCount

-----------------------------------------------------------------------------
(* Claims about the tiers of the layout (SpecTiers).                       *)

TierZero == pcL = "tier" /\ currentTier = 0

CommunityOf(id) == FindNode(layoutGraph, id)[1].community

\* The item edges whose two ends are nodes of different communities
CrossEdges ==
    SelectSeq(layoutGraph.edges,
              LAMBDA e : /\ FindNode(layoutGraph, e.source) # <<>>
                         /\ FindNode(layoutGraph, e.target) # <<>>
                         /\ CommunityOf(e.source) # CommunityOf(e.target))

\* Layout edges that join the LayoutNodes of communities c and d
LayoutEdgesJoining(c, d) ==
    {k \in 1..Len(layoutEdges) :
        {layoutNodes[layoutEdges[k].source].clusterId,
         layoutNodes[layoutEdges[k].target].clusterId} = {c, d}}

FirstCrossEdge(c, d) ==
    CrossEdges[CHOOSE k \in 1..Len(CrossEdges) :
                  /\ {CommunityOf(CrossEdges[k].source), CommunityOf(CrossEdges[k].target)} = {c, d}
                  /\ \A m \in 1..(k - 1) :
                        {CommunityOf(CrossEdges[m].source), CommunityOf(CrossEdges[m].target)} # {c, d}]

\* C17 (as stated): at tier 0 each pair of communities with a cross-community
\* item edge has exactly one layout edge, carrying the weight of the first such
\* item edge.
C17_OneEdgePerCommunityPair ==
    TierZero =>
        \A k \in 1..Len(CrossEdges) :
            LET c == CommunityOf(CrossEdges[k].source)
                d == CommunityOf(CrossEdges[k].target)
            IN  /\ Cardinality(LayoutEdgesJoining(c, d)) = 1
                /\ \A e \in LayoutEdgesJoining(c, d) :
                      layoutEdges[e].weight =
                          (IF FirstCrossEdge(c, d).weight = Zero THEN <<1, 2>>
                           ELSE FirstCrossEdge(c, d).weight)

\* C17 (amended): at tier 0 the layout edges are, in edge-list order, one per
\* cross-community item edge: each joins the LayoutNodes of the two communities
\* and carries that item edge's weight (0.5 when the weight is 0 or missing).
C17_OneEdgePerItemEdge ==
    TierZero =>
        /\ Len(layoutEdges) = Len(CrossEdges)
        /\ \A k \in 1..Len(layoutEdges) :
              /\ layoutNodes[layoutEdges[k].source].clusterId = CommunityOf(CrossEdges[k].source)
              /\ layoutNodes[layoutEdges[k].target].clusterId = CommunityOf(CrossEdges[k].target)
              /\ layoutEdges[k].weight =
                    (IF CrossEdges[k].weight = Zero THEN <<1, 2>> ELSE CrossEdges[k].weight)

\* Two layout edges of different weight join the same two communities
C17_Witness ==
    /\ TierZero
    /\ \E j, k \in 1..Len(layoutEdges) :
          /\ j < k
          /\ k \in LayoutEdgesJoining(layoutNodes[layoutEdges[j].source].clusterId,
                                      layoutNodes[layoutEdges[j].target].clusterId)
          /\ layoutEdges[j].weight # layoutEdges[k].weight

ParentsOf(c) == {k \in 1..Len(layoutNodes) : layoutNodes[k].clusterId = c}

\* C18: subdividing to tier t gives every parent LayoutNode of a community of m
\* members exactly min(2^t, ceil(m / 50)) children, each with the parent's
\* clusterId and hue and with tier = t.
C18_ChildrenPerParent ==
    [][(pcL = "tier" /\ currentTier' = currentTier + 1) =>
        \A c \in {layoutNodes[k].clusterId : k \in 1..Len(layoutNodes)} :
            LET m        == Len(Members(layoutGraph, c))
                children == {k \in 1..Len(layoutNodes') : layoutNodes'[k].clusterId = c}
            IN  /\ Cardinality(children) =
                      Cardinality(ParentsOf(c)) * Min(Pow2(currentTier'), CeilDiv(m, SubgroupSize))
                /\ \A k \in children :
                      /\ layoutNodes'[k].tier = currentTier'
                      /\ \E q \in ParentsOf(c) : layoutNodes'[k].hue = layoutNodes[q].hue]_vars

SizeOf(k) == Len(Members(layoutGraph, layoutNodes[k].clusterId))

WithHue(h) == {k \in 1..Len(layoutNodes) : layoutNodes[k].hue = h}

\* C19: the k tier-0 LayoutNodes carry the hues 360 * i / k, i = 0 .. k - 1, each
\* once; hue 0 goes to a community of the largest size, and for k > 2 the hue of
\* index floor(k / 2) goes to a community of the second-largest size.
C19_HueAssignment ==
    TierZero =>
        LET k == Len(layoutNodes)
        IN  /\ \A i \in 0..(k - 1) : Cardinality(WithHue(Reduce(<<FullTurn * i, k>>))) = 1
            /\ \A n \in 1..k : /\ FracGE(layoutNodes[n].hue, Zero)
                               /\ FracGT(<<FullTurn, 1>>, layoutNodes[n].hue)
            /\ \A first \in WithHue(Zero) :
                  /\ \A n \in 1..k : SizeOf(first) >= SizeOf(n)
                  /\ k > 2 =>
                        \A mid \in WithHue(Reduce(<<FullTurn * (k \div 2), k>>)) :
                            \A n \in (1..k) \ {first} : SizeOf(mid) >= SizeOf(n)

\* Four communities, two of them larger than the others
C19_Witness ==
    /\ TierZero
    /\ Len(layoutNodes) = 4
    /\ Cardinality({n \in 1..4 : SizeOf(n) = 2}) = 2
    /\ \E mid \in WithHue(<<FullTurn \div 2, 1>>) : SizeOf(mid) = 2

-----------------------------------------------------------------------------
(* Claims about the tier simulations (SpecTicks).                          *)

\* C20: the tiers are simulated in the order 0, 1, ..., maxTier, tier 0 for exactly
\* 500 ticks and every later tier for exactly 300; a tier's simulation is created
\* only when all earlier ones have been stopped after their last tick, so at most
\* one simulation is live and the LayoutNodes are those of the newest simulation.
C20_TiersInOrder ==
    /\ Len(sims) <= maxTier + 1
    /\ Cardinality({s \in 1..Len(sims) : sims[s].live}) <= 1
    /\ \A s \in 1..Len(sims) :
          /\ sims[s].tier = s - 1
          /\ sims[s].iterations = (IF s = 1 THEN 500 ELSE 300)
          /\ sims[s].tickCount <= sims[s].iterations
          /\ ~sims[s].live => sims[s].tickCount = sims[s].iterations
          /\ s < Len(sims) => ~sims[s].live
    /\ (pcL = "awaiting") =>
          \A k \in 1..Len(layoutNodes) : layoutNodes[k].tier = Len(sims) - 1

\* runSimulation has returned after all four tiers
C20_Witness ==
    /\ pcL = "finalized"
    /\ Len(sims) = maxTier + 1
    /\ sims[1].tickCount = 500
    /\ \A s \in 2..Len(sims) : sims[s].tickCount = 300 /\ ~sims[s].live

-----------------------------------------------------------------------------
(* Claims about finalizeLayout (SpecTiers).                                *)

Placed == pcL = "placed"

\* The LayoutNodes whose slice of members holds graph node k
HoldersOf(k) ==
    {p \in 1..Len(layoutNodes) : k \in Range(AssignedMembers(layoutGraph, layoutNodes, p))}

\* C21: after finalizeLayout every graph item has coordinates and a hue, and lies
\* in the member slice of exactly one LayoutNode, which is of tier maxTier and of
\* the item's own community.
C21_EveryItemPlaced ==
    Placed =>
        \A k \in 1..Len(layoutGraph.nodes) :
            /\ positioned[k].placed
            /\ Cardinality(HoldersOf(k)) = 1
            /\ \A p \in HoldersOf(k) :
                  /\ layoutNodes[p].clusterId = layoutGraph.nodes[k].community
                  /\ layoutNodes[p].tier = maxTier
                  /\ positioned[k].hue = layoutNodes[p].hue

-----------------------------------------------------------------------------
(* Claims about factor applicability (SpecScore).                          *)

\* The format factor as a binary factor of every pair with two format labels
PresentFormatFactor(a, b) ==
    IF a.format # NoFormat /\ b.format # NoFormat
    THEN Factor(IF a.format = b.format THEN One ELSE Zero, FormatWeight)
    ELSE NoFactor

\* The season factor max(0, 1 - |difference| / 3) of every pair with two years
PresentSeasonFactor(a, b) ==
    IF a.seasonYear # NoYear /\ b.seasonYear # NoYear
    THEN Factor(Reduce(<<Max(0, 3 - Abs(a.seasonYear - b.seasonYear)), 3>>), SeasonWeight)
    ELSE NoFactor

PresenceFactors(a, b) ==
    <<GenreFactor(a, b), TagFactor(a, b), StudioFactor(a, b), StaffFactor(a, b),
      PresentFormatFactor(a, b), PresentSeasonFactor(a, b), RelationFactor(a, b)>>

\* C22: a factor is left out of the denominator only when an attribute is
\* missing: two format labels always add 0.5 to the denominator (and 0.5 or 0 to
\* the numerator), two season-years always add 0.3 (with max(0, 1 - |diff|/3)).
C22_PresenceDecidesDenominator ==
    Scored =>
        LET fs == PresenceFactors(animeA, animeB)
        IN  scoreAB = (IF SumWeights(fs) > 0
                       THEN FracDiv(SumSimilarity(fs), SumWeights(fs))
                       ELSE Zero)


-----------------------------------------------------------------------------
(* Claims about empty input (SpecMeta).                                    *)

\* C24: when the item list is empty the similarity stage aborts: main() never
\* reaches the point where graph.json has been written for an empty list.
C24_EmptyInputAborts ==
    pcM = "saved" => animeList # <<>>

-----------------------------------------------------------------------------
(* Claims about LayoutNode ids (SpecTiers).                                *)

\* C29: the LayoutNodes handed to one tier's simulation have pairwise
\* distinct ids.
C29_DistinctIds ==
    \A i, j \in 1..Len(layoutNodes) :
        i # j => layoutNodes[i].id # layoutNodes[j].id


-----------------------------------------------------------------------------
(* Claims about the cooling of the simulations (SpecTicksLive).            *)

AllResolved ==
    /\ Len(sims) = maxTier + 1
    /\ \A s \in 1..Len(sims) : sims[s].resolved

\* C26: with 500 and 300 requested ticks, alphaDecay 0.005 and alphaMin 0.001
\* every runTier call eventually resolves, so runSimulation eventually
\* returns the positioned graph.
C26_RunTierResolves ==
    <>(pcL = "finalized" /\ AllResolved)

\* A simulation that reached its 500 requested ticks while alpha was still
\* above alphaMin, in a run that returned
C26_Witness ==
    /\ pcL = "finalized"
    /\ AllResolved
    /\ sims[1].tickCount = Tier0Iterations
    /\ sims[1].alpha >= alphaMin


-----------------------------------------------------------------------------
(* SpecDensity: the 'tick' handler of runTier with normalizeDensity.  A    *)
(* node is a record [x, y, scaleSq]: d3 has put it at (x, y), in 1/Unit,   *)
(* and normalizeDensity has since multiplied both coordinates by the       *)
(* factor sqrt(scaleSq / pi); scaleSq is NoScaling while it has not.       *)

InverseDensity == 20000     \* 1 / targetDensity
ticksPerUpdate == 10

MaxDensityNodes == 2

NoScaling == <<>>

\* n.norm() squared
NormSq(n) == n.x * n.x + n.y * n.y

\* Math.max(...nodes.map(n => n.norm())), squared
NormSqFirst(nodes) == NormSq(nodes[1])
NormSqMax(nodes) ==
    CHOOSE m \in {NormSq(nodes[k]) : k \in 1..Len(nodes)} :
        \A k \in 1..Len(nodes) : m >= NormSq(nodes[k])

\* scale = sqrt(targetArea / area) with area = pi * maxNorm^2 and
\* targetArea = nodes.length / targetDensity; returns early when maxNorm is 0
normalizeDensity(nodes) ==
    LET m == NormSqMax(nodes)
    IN  IF m = 0 THEN nodes
        ELSE [k \in 1..Len(nodes) |->
                [nodes[k] EXCEPT !.scaleSq =
                    Reduce(<<Len(nodes) * InverseDensity * Unit * Unit, m>>)]]

\* Where one step of the simulation can move a node
DensityPosSet == {<<0, 0>>, <<100 * Unit, 0>>, <<30 * Unit, 40 * Unit>>}

DensityNodes(pos) ==
    [k \in 1..Len(pos) |-> [x |-> pos[k][1], y |-> pos[k][2], scaleSq |-> NoScaling]]

Placements(n) == [1..n -> DensityPosSet]

\* runTier has created the simulation and registered the handler
InitDensity ==
    /\ \E n \in 1..MaxDensityNodes : \E pos \in Placements(n) :
          dnNodes = DensityNodes(pos)
    /\ dnTick = 0
    /\ dnIterations \in {Tier0Iterations, TierIterations}
    /\ dnCalls = 0
    /\ dnLive = TRUE
    /\ UiIdle
    /\ ReqIdle
    /\ UserIdle
    /\ ScoreIdle
    /\ MetaIdle
    /\ LayoutIdle
    /\ TickIdle
    /\ LabelIdle
    /\ RecIdle

\* One step of the simulation: d3 moves the nodes, then the handler runs
\* (tickCount++, normalizeDensity on every tenth tick, stop at `iterations`)
DensityTick ==
    /\ dnLive
    /\ \E pos \in Placements(Len(dnNodes)) :
          LET count == dnTick + 1
              moved == DensityNodes(pos)
          IN  /\ dnTick' = count
              /\ IF count % ticksPerUpdate = 0
                 THEN /\ dnNodes' = normalizeDensity(moved)
                      /\ dnCalls' = dnCalls + 1
                 ELSE /\ dnNodes' = moved
                      /\ UNCHANGED dnCalls
              /\ dnLive' = ~Stops(count, dnIterations)
    /\ UNCHANGED <<dnIterations, uiVars, reqVars, userVars, scoreVars, metaVars,
                   layoutVars, tickVars, labelVars, recVars>>

NextDensity == DensityTick

SpecDensity == InitDensity /\ [][NextDensity]_vars

-----------------------------------------------------------------------------
(* Claims about density normalisation (SpecDensity).                       *)

AllAtOrigin == \A k \in 1..Len(dnNodes) : dnNodes[k].x = 0 /\ dnNodes[k].y = 0

\* C23: normalizeDensity has run once per completed batch of 10 ticks; right
\* after it every node carries the same positive factor, with which
\* pi * (largest distance from the origin)^2 = nodeCount / targetDensity, and
\* when every node is at the origin no node has been scaled.
C23_DensityNormalized ==
    /\ dnCalls = dnTick \div ticksPerUpdate
    /\ (dnTick > 0 /\ dnTick % ticksPerUpdate = 0) =>
          IF AllAtOrigin
          THEN \A k \in 1..Len(dnNodes) : dnNodes[k].scaleSq = NoScaling
          ELSE \E j \in 1..Len(dnNodes) :
                  LET f == dnNodes[j].scaleSq
                  IN  /\ f # NoScaling
                      /\ \A k \in 1..Len(dnNodes) :
                            /\ dnNodes[k].scaleSq = f
                            /\ NormSq(dnNodes[j]) >= NormSq(dnNodes[k])
                      /\ f[1] > 0 /\ f[2] > 0
                      /\ NormSq(dnNodes[j]) * f[1] =
                            Len(dnNodes) * InverseDensity * Unit * Unit * f[2]

\* Two nodes, the first at the origin and the second 50 away, after the
\* tenth tick: both scaled by sqrt(16 / pi)
C23_Witness ==
    /\ dnTick = ticksPerUpdate
    /\ dnCalls = 1
    /\ Len(dnNodes) = 2
    /\ dnNodes[1] = [x |-> 0, y |-> 0, scaleSq |-> <<16, 1>>]
    /\ dnNodes[2] = [x |-> 30 * Unit, y |-> 40 * Unit, scaleSq |-> <<16, 1>>]


-----------------------------------------------------------------------------
(* SpecUi: the map page.  App.vue owns selectedAnime and searchResults,    *)
(* the renderer owns selectedNode and hoveredNode; an anime is known by    *)
(* its id and NoNode stands for null.                                      *)

MaxUiNodes == 3

UiNodes == 1..MaxUiNodes

\* AnimeMapRenderer.selectNode: the new value of this.selectedNode
selectNode(selected, node) ==
    IF selected # NoNode /\ node # NoNode /\ ToString(selected) = ToString(node)
    THEN NoNode
    ELSE node

\* results.slice(0, 50) of renderer.search: some nodes, in data order
SearchResultSets ==
    {SelectSeq([k \in 1..MaxUiNodes |-> k], LAMBDA k : k \in S) : S \in SUBSET UiNodes}

\* initRenderer has finished: nothing selected, hovered or searched
InitUi ==
    /\ UiIdle
    /\ DensityIdle
    /\ ReqIdle
    /\ UserIdle
    /\ ScoreIdle
    /\ MetaIdle
    /\ LayoutIdle
    /\ TickIdle
    /\ LabelIdle
    /\ RecIdle

UiRest == <<densityVars, reqVars, userVars, scoreVars, metaVars, layoutVars,
            tickVars, labelVars, recVars>>

\* pointer move: the renderer records the nearest node, or null
Hover ==
    /\ \E n \in UiNodes \cup {NoNode} :
          /\ hoveredNode' = n
          /\ uiEvent' = <<"hover", n>>
    /\ UNCHANGED <<selectedAnime, selectedNode, searchResults, UiRest>>

\* viewport 'clicked' without a drag: selectNode(hoveredNode or null), whose
\* onClick callback stores the renderer's selection in App.selectedAnime
MapClick ==
    /\ selectedNode' = selectNode(selectedNode, hoveredNode)
    /\ selectedAnime' = selectedNode'
    /\ uiEvent' = <<"click", hoveredNode>>
    /\ UNCHANGED <<hoveredNode, searchResults, UiRest>>

\* closeDetailPanel: selectedAnime = null; renderer.selectNode(null)
CloseDetailPanel ==
    /\ selectedNode' = selectNode(selectedNode, NoNode)
    /\ selectedAnime' = selectedNode'
    /\ uiEvent' = <<"close", NoNode>>
    /\ UNCHANGED <<hoveredNode, searchResults, UiRest>>

\* onSearch: searchResults = renderer.search(searchQuery)
OnSearch ==
    /\ \E r \in SearchResultSets :
          searchResults' = r
    /\ uiEvent' = <<"search", NoNode>>
    /\ UNCHANGED <<selectedAnime, selectedNode, hoveredNode, UiRest>>

\* focusAnime(anime) for a click on an entry of the result list:
\* renderer.focusNode(anime), which is selectNode(anime); searchResults = []
FocusAnime ==
    /\ \E k \in 1..Len(searchResults) :
          /\ selectedNode' = selectNode(selectedNode, searchResults[k])
          /\ uiEvent' = <<"focus", searchResults[k]>>
    /\ selectedAnime' = selectedNode'
    /\ searchResults' = <<>>
    /\ UNCHANGED <<hoveredNode, UiRest>>

NextUi == Hover \/ MapClick \/ CloseDetailPanel \/ OnSearch \/ FocusAnime

SpecUi == InitUi /\ [][NextUi]_vars

-----------------------------------------------------------------------------
(* Claims about the search list (SpecUi).                                  *)

\* C25: right after a click on a search result the clicked anime is both
\* App.selectedAnime and renderer.selectedNode, whatever was selected before.
C25_SearchClickSelects ==
    \A a \in UiNodes :
        uiEvent = <<"focus", a>> => selectedAnime = a /\ selectedNode = a


-----------------------------------------------------------------------------
(* SpecRequest: one call of makeRequest.  There are three functions of     *)
(* this name: 1 is the one of the recommendation collector, 2 the one of   *)
(* the metadata collector, 3 the one of the user-list collector.           *)

Versions == {1, 2, 3}

\* the default of the parameter `retries`
Retries(v) == IF v = 3 THEN 3 ELSE 5

\* What one HTTP attempt can bring: data, GraphQL errors, a body with neither
\* errors nor data, HTTP 429, or any other failure of axios.post
Responses == {"ok", "errors", "nodata", "rate", "fail"}

\* The body of the for loop in functions 1 and 2 for attempt i: "retry" when
\* the loop goes on
CheckedAttempt(i, r, retries) ==
    CASE r = "ok"     -> "data"
      [] r = "errors" -> IF i = retries - 1 THEN "thrown" ELSE "retry"
      [] r = "nodata" -> IF i = retries - 1 THEN "thrown" ELSE "retry"
      [] r = "rate"   -> "retry"
      [] OTHER        -> IF i = retries - 1 THEN "thrown" ELSE "retry"

\* The body of the for loop in function 3: response.data.data is returned
\* whenever the response has no errors
UncheckedAttempt(i, r, retries) ==
    CASE r = "ok"     -> "data"
      [] r = "errors" -> IF i = retries - 1 THEN "thrown" ELSE "retry"
      [] r = "nodata" -> "undefined"
      [] r = "rate"   -> "retry"
      [] OTHER        -> IF i = retries - 1 THEN "thrown" ELSE "retry"

Attempt(v, i, r) ==
    IF v = 3 THEN UncheckedAttempt(i, r, Retries(v)) ELSE CheckedAttempt(i, r, Retries(v))

\* After the loop: functions 1 and 2 throw 'All retries failed', function 3
\* ends without a return statement
AfterLoop(v) == IF v = 3 THEN "undefined" ELSE "thrown"

InitRequest ==
    /\ reqVersion \in Versions
    /\ reqI = 0
    /\ reqLog = <<>>
    /\ reqOutcome = "running"
    /\ DensityIdle
    /\ UiIdle
    /\ UserIdle
    /\ ScoreIdle
    /\ MetaIdle
    /\ LayoutIdle
    /\ TickIdle
    /\ LabelIdle
    /\ RecIdle

RequestRest == <<densityVars, uiVars, userVars, scoreVars, metaVars, layoutVars,
                 tickVars, labelVars, recVars>>

\* One pass of the loop body: axios.post and what follows it
HttpAttempt ==
    /\ reqOutcome = "running"
    /\ reqI < Retries(reqVersion)
    /\ \E r \in Responses :
          /\ reqLog' = Append(reqLog, r)
          /\ IF Attempt(reqVersion, reqI, r) = "retry"
             THEN reqI' = reqI + 1 /\ UNCHANGED reqOutcome
             ELSE reqOutcome' = Attempt(reqVersion, reqI, r) /\ UNCHANGED reqI
    /\ UNCHANGED <<reqVersion, RequestRest>>

\* The loop condition i < retries fails
LoopEnd ==
    /\ reqOutcome = "running"
    /\ reqI >= Retries(reqVersion)
    /\ reqOutcome' = AfterLoop(reqVersion)
    /\ UNCHANGED <<reqVersion, reqI, reqLog, RequestRest>>

NextRequest == HttpAttempt \/ LoopEnd

SpecRequest == InitRequest /\ [][NextRequest]_vars

-----------------------------------------------------------------------------
(* Claims about makeRequest (SpecRequest).                                 *)

\* C28: a makeRequest call makes at most `retries` HTTP attempts and ends by
\* returning the response's data or by throwing, never by returning without
\* data.
C28_DataOrThrow ==
    /\ Len(reqLog) <= Retries(reqVersion)
    /\ reqOutcome \in {"running", "data", "thrown"}


-----------------------------------------------------------------------------
(* SpecUser: main() of the user-similarity script, from the result of      *)
(* computeSimilarities on.  detectCommunities is the label propagation     *)
(* above, run on the graph main() has built.                               *)

\* const nodeIds = new Set(); edges.forEach(edge => { add source, target })
EndpointIds(es) ==
    {es[k].source : k \in 1..Len(es)} \cup {es[k].target : k \in 1..Len(es)}

\* buildGraph of the user-similarity script for items 1..n
buildUserGraph(n, es) ==
    [nodes |-> SelectSeq([k \in 1..n |-> [id |-> k]],
                         LAMBDA node : node.id \in EndpointIds(es)),
     edges |-> es]

InitUser ==
    /\ userCount \in 2..MaxLPNodes
    /\ \E w \in [1..((MaxLPNodes * (MaxLPNodes - 1)) \div 2) -> LPWeights \cup {0}] :
          userEdges = GraphOfWeights(userCount, w).edges
    /\ pcU = "scored"
    /\ userFile = <<>>
    /\ DensityIdle
    /\ UiIdle
    /\ ReqIdle
    /\ ScoreIdle
    /\ MetaIdle
    /\ LayoutIdle
    /\ TickIdle
    /\ LabelIdle
    /\ RecIdle

UserRest == <<densityVars, uiVars, reqVars, scoreVars, metaVars, layoutVars,
              tickVars, recVars>>

\* const graph = buildGraph(animeUsers, edges)
BuildUserGraph ==
    /\ pcU = "scored"
    /\ lpGraph' = buildUserGraph(userCount, userEdges)
    /\ pcU' = "built"
    /\ UNCHANGED <<userEdges, userCount, userFile, pcLP, lpCommunities, lpChanged,
                   lpIterations, lpCursor, lpStart, UserRest>>

\* await fs.writeFile(graph.json, JSON.stringify(graph))
SaveUserGraph ==
    /\ pcU = "built"
    /\ userFile' = <<lpGraph>>
    /\ pcU' = "saved"
    /\ UNCHANGED <<userEdges, userCount, labelVars, UserRest>>

\* detectCommunities(graph) is called: adjacency, own label for every node
StartDetect ==
    /\ pcU = "saved"
    /\ pcLP' = "while"
    /\ lpCommunities' = [id \in {lpGraph.nodes[k].id : k \in 1..Len(lpGraph.nodes)} |-> id]
    /\ lpChanged' = TRUE
    /\ lpIterations' = 0
    /\ lpCursor' = 0
    /\ lpStart' = <<>>
    /\ pcU' = "detecting"
    /\ UNCHANGED <<userEdges, userCount, userFile, lpGraph, UserRest>>

\* detectCommunities has returned: communities.json is written
SaveCommunities ==
    /\ pcU = "detecting"
    /\ pcLP = "done"
    /\ pcU' = "done"
    /\ UNCHANGED <<userEdges, userCount, userFile, labelVars, UserRest>>

NextUser ==
    BuildUserGraph \/ SaveUserGraph \/ StartDetect \/ NextLabel \/ SaveCommunities

SpecUser == InitUser /\ [][NextUser]_vars

-----------------------------------------------------------------------------
(* Claims about the order of main() (SpecUser).                            *)

HasCommunity(node) ==
    "community" \in DOMAIN node /\ node.community # NoCommunity

EveryNodeHasCommunity(file) ==
    \A k \in 1..Len(file.nodes) : HasCommunity(file.nodes[k])

\* C27: whenever graph.json has been written, every node in it carries a
\* community id (the file is written after community detection).
C27_SavedAfterDetection ==
    /\ graphFile # <<>> => EveryNodeHasCommunity(graphFile[1])
    /\ userFile # <<>> => EveryNodeHasCommunity(userFile[1])

-----------------------------------------------------------------------------
(* SpecBuilders: one run of any of the three compute scripts.              *)

InitBuilders == InitMeta \/ InitRec \/ InitUser

NextBuilders == NextMeta \/ NextRec \/ NextUser

SpecBuilders == InitBuilders /\ [][NextBuilders]_vars

-----------------------------------------------------------------------------
(* Claims about the built graph (SpecBuilders).                            *)

\* ids: the node ids of a graph, es: its edges
Sound(ids, es) ==
    /\ \A k \in 1..Len(es) : es[k].source \in ids /\ es[k].target \in ids
    /\ \A id \in ids : \E k \in 1..Len(es) : es[k].source = id \/ es[k].target = id

NodeIds(nodes) == {nodes[k].id : k \in 1..Len(nodes)}

====
